---------------------------- MODULE Spec2Model ----------------------------
(***************************************************************************)
(* A model of the web scraper of src/scan.py: the CircuitBreaker class,    *)
(* the fetch pipeline (WebScraper.fetch_url_with_retry), the crawl driver  *)
(* (process_url, get_all_pages) and the content pipeline (run); and, as    *)
(* single calls, ScraperConfig._validate, should_follow_url, split_text,   *)
(* sanitize_csv_value and _get_safe_output_directory.                      *)
(*                                                                         *)
(* Strings are sequences of symbols.  A URL is a sequence whose head is    *)
(* its scheme prefix ("https://", "mailto:", ...) followed by one symbol   *)
(* per character; prefix and substring tests are computed on sequences.    *)
(* Python's None is the empty sequence for an optional value, and 0 for    *)
(* _last_failure_time and split_length (a time.time() of 0 and a           *)
(* split_length of 0 are falsy exactly as None is, and the code tests      *)
(* both by truth value).                                                   *)
(***************************************************************************)
EXTENDS Integers, Sequences, FiniteSets, TLC

VARIABLES
    cb,     \* the CircuitBreaker object's fields
    cbp,    \* the CircuitBreaker constructor's arguments
    now,    \* time.time()
    hist,   \* the calls made on the breaker so far (history, not program state)
    cfg,    \* the ScraperConfig of the run
    web,    \* the site: for each URL the links and the text of its page
    rpc,    \* where run() is: "start", "level", "gather", "content", "done"
    outcome,      \* how run() ended: "none", "returned" or the exception raised
    fs,           \* the file system: output directory, output file
    rows,         \* the rows written to the output file, in order
    visited,      \* WebScraper.visited
    seen_content, \* WebScraper.seen_content
    all_urls,     \* get_all_pages: all_urls
    to_visit,     \* get_all_pages: to_visit
    depth,        \* get_all_pages: depth
    tasks,        \* the process_url tasks of the current level, by URL
    urls,         \* run: the URL set handed over by discovery
    pending,      \* run: the URLs the content loop has not reached yet
    cf,           \* run: the content loop's fetch call
    cur,          \* run: the URL the content loop is at
    extracted,    \* the URLs whose page the content loop has split into chunks
    call          \* one call of a function or constructor: arguments, result

cbVars == <<cb, cbp, now, hist>>
runVars == <<cfg, web, rpc, outcome, fs, rows, visited, seen_content, all_urls,
             to_visit, depth, tasks, urls, pending, cf, cur, extracted>>
vars == <<cb, cbp, now, hist, cfg, web, rpc, outcome, fs, rows, visited,
          seen_content, all_urls, to_visit, depth, tasks, urls, pending, cf,
          cur, extracted, call>>

(***************************************************************************)
(* Bounds of the model.                                                    *)
(***************************************************************************)
MaxTime == 4
MaxRequests == 5
MaxThreshold == 2

(***************************************************************************)
(* CircuitBreaker (src/scan.py:237-366)                                    *)
(***************************************************************************)
CLOSED == "closed"
OPEN == "open"
HALF_OPEN == "half_open"

\* CircuitBreaker.__init__: the fields of a fresh breaker.
NewBreaker ==
    [state |-> CLOSED, failures |-> 0, successes |-> 0,
     total_requests |-> 0, total_failures |-> 0, last_failure_time |-> 0]

\* Whether recovery_timeout has passed since the last failure, at time t.
RecoveryElapsed(b, p, t) ==
    /\ b.last_failure_time # 0
    /\ t - b.last_failure_time >= p.recovery_timeout

\* The state property with the timeout compared strictly (a plausible slip).
StateReadStrict(b, p, t) ==
    IF /\ b.state = OPEN
       /\ b.last_failure_time # 0
       /\ t - b.last_failure_time > p.recovery_timeout
    THEN [b EXCEPT !.state = HALF_OPEN, !.successes = 0]
    ELSE b

\* The state property: reading it moves an OPEN breaker to HALF_OPEN once
\* the recovery timeout has passed.  The value is the breaker after the read.
StateRead(b, p, t) ==
    IF b.state = OPEN /\ RecoveryElapsed(b, p, t)
    THEN [b EXCEPT !.state = HALF_OPEN, !.successes = 0]
    ELSE b

\* The is_open property: the value returned by a read at time t.
IsOpen(b, p, t) == StateRead(b, p, t).state = OPEN

\* _open_circuit
OpenCircuit(b) ==
    IF b.state # OPEN THEN [b EXCEPT !.state = OPEN] ELSE b

\* record_success that closes the circuit from any state but CLOSED.
RecordSuccessFromOpen(b, p) ==
    LET b1 == [b EXCEPT !.total_requests = @ + 1, !.failures = 0]
    IN  IF b1.state # CLOSED
        THEN LET b2 == [b1 EXCEPT !.successes = @ + 1]
             IN  IF b2.successes >= p.success_threshold
                 THEN [b2 EXCEPT !.state = CLOSED]
                 ELSE b2
        ELSE b1

\* record_success that leaves the consecutive-failure counter as it is.
RecordSuccessKeepsFailures(b, p) ==
    LET b1 == [b EXCEPT !.total_requests = @ + 1]
    IN  IF b1.state = HALF_OPEN
        THEN LET b2 == [b1 EXCEPT !.successes = @ + 1]
             IN  IF b2.successes >= p.success_threshold
                 THEN [b2 EXCEPT !.state = CLOSED]
                 ELSE b2
        ELSE b1

\* record_success that starts the totals afresh when it closes the circuit.
RecordSuccessClearsTotals(b, p) ==
    LET b1 == [b EXCEPT !.total_requests = @ + 1, !.failures = 0]
    IN  IF b1.state = HALF_OPEN
        THEN LET b2 == [b1 EXCEPT !.successes = @ + 1]
             IN  IF b2.successes >= p.success_threshold
                 THEN [b2 EXCEPT !.state = CLOSED, !.total_requests = 0,
                                 !.total_failures = 0]
                 ELSE b2
        ELSE b1

\* record_success that does not count the request.
RecordSuccessUncounted(b, p) ==
    LET b1 == [b EXCEPT !.failures = 0]
    IN  IF b1.state = HALF_OPEN
        THEN LET b2 == [b1 EXCEPT !.successes = @ + 1]
             IN  IF b2.successes >= p.success_threshold
                 THEN [b2 EXCEPT !.state = CLOSED]
                 ELSE b2
        ELSE b1

\* record_success
RecordSuccess(b, p) ==
    LET b1 == [b EXCEPT !.total_requests = @ + 1, !.failures = 0]
    IN  IF b1.state = HALF_OPEN
        THEN LET b2 == [b1 EXCEPT !.successes = @ + 1]
             IN  IF b2.successes >= p.success_threshold
                 THEN [b2 EXCEPT !.state = CLOSED]
                 ELSE b2
        ELSE b1

\* record_failure with the consecutive-failure test off by one.
RecordFailureOffByOne(b, p, t) ==
    LET b1 == [b EXCEPT !.total_requests = @ + 1,
                        !.total_failures = @ + 1,
                        !.failures = @ + 1,
                        !.last_failure_time = t]
    IN  IF b1.failures > p.failure_threshold
        THEN OpenCircuit(b1)
        ELSE IF /\ b1.total_requests >= p.min_requests
                /\ b1.total_failures * p.rate_den >= p.rate_num * b1.total_requests
             THEN OpenCircuit(b1)
             ELSE b1

\* record_failure with the failure rate compared strictly.
RecordFailureRateStrict(b, p, t) ==
    LET b1 == [b EXCEPT !.total_requests = @ + 1,
                        !.total_failures = @ + 1,
                        !.failures = @ + 1,
                        !.last_failure_time = t]
    IN  IF b1.failures >= p.failure_threshold
        THEN OpenCircuit(b1)
        ELSE IF /\ b1.total_requests >= p.min_requests
                /\ b1.total_failures * p.rate_den > p.rate_num * b1.total_requests
             THEN OpenCircuit(b1)
             ELSE b1

\* record_failure at time t.  The failure rate total_failures/total_requests
\* is compared with failure_rate_threshold = rate_num/rate_den exactly.
RecordFailure(b, p, t) ==
    LET b1 == [b EXCEPT !.total_requests = @ + 1,
                        !.total_failures = @ + 1,
                        !.failures = @ + 1,
                        !.last_failure_time = t]
    IN  IF b1.failures >= p.failure_threshold
        THEN OpenCircuit(b1)
        ELSE IF /\ b1.total_requests >= p.min_requests
                /\ b1.total_failures * p.rate_den >= p.rate_num * b1.total_requests
             THEN OpenCircuit(b1)
             ELSE b1

\* reset
ResetBreaker(b) == NewBreaker

(***************************************************************************)
(* The breaker driven by an arbitrary caller.                              *)
(***************************************************************************)
NewHist ==
    [failStreak |-> 0, succAfter |-> 0, openAtFailure |-> FALSE,
     halfOpenStreak |-> 0, lastFailureAt |-> 0]

\* The constructor arguments the breaker specification ranges over.
BreakerParams ==
    [failure_threshold : 1..MaxThreshold,
     success_threshold : 1..2,
     recovery_timeout : 1..2,
     rate_num : {1, 2}, rate_den : {2},
     min_requests : {2, 3}]

CBInit ==
    /\ cbp \in BreakerParams
    /\ cb = NewBreaker
    /\ now = 1
    /\ hist = NewHist
    /\ cfg = <<>> /\ web = <<>> /\ rpc = "idle" /\ outcome = "none"
    /\ fs = <<>> /\ rows = <<>> /\ visited = {} /\ seen_content = {}
    /\ all_urls = {} /\ to_visit = {} /\ depth = 0 /\ tasks = <<>>
    /\ urls = {} /\ pending = {} /\ cf = <<>> /\ cur = <<>> /\ extracted = {}
    /\ call = <<>>

\* A caller records a failure.
CBRecordFailure ==
    /\ cb.total_requests < MaxRequests
    /\ cb' = RecordFailure(cb, cbp, now)
    /\ hist' = [failStreak |-> hist.failStreak + 1, succAfter |-> 0,
                openAtFailure |-> (cb'.state = OPEN), halfOpenStreak |-> 0,
                lastFailureAt |-> now]
    /\ UNCHANGED <<call, cbp, now, runVars>>

\* A caller records a success.
CBRecordSuccess ==
    /\ cb.total_requests < MaxRequests
    /\ cb' = RecordSuccess(cb, cbp)
    /\ hist' = [hist EXCEPT !.failStreak = 0,
                            !.succAfter = IF RecoveryElapsed(cb, cbp, now)
                                          THEN @ + 1 ELSE @,
                            !.halfOpenStreak = IF cb.state = HALF_OPEN
                                               THEN @ + 1 ELSE 0]
    /\ UNCHANGED <<call, cbp, now, runVars>>

\* A caller reads state, is_open or stats.
CBReadState ==
    /\ cb' = StateRead(cb, cbp, now)
    /\ UNCHANGED <<call, cbp, now, hist, runVars>>

\* A caller resets the breaker.
CBReset ==
    /\ cb' = ResetBreaker(cb)
    /\ hist' = NewHist
    /\ UNCHANGED <<call, cbp, now, runVars>>

\* Time passes.
CBTick ==
    /\ now < MaxTime
    /\ now' = now + 1
    /\ UNCHANGED <<call, cb, cbp, hist, runVars>>

CBNext ==
    \/ CBRecordFailure
    \/ CBRecordSuccess
    \/ CBReadState
    \/ CBReset
    \/ CBTick

SpecCB == CBInit /\ [][CBNext]_vars

(***************************************************************************)
(* Strings (src/scan.py uses str.startswith, the in operator and           *)
(* urllib.parse.urlparse).                                                 *)
(***************************************************************************)

\* s.startswith(p)
StartsWith(s, p) == Len(p) <= Len(s) /\ SubSeq(s, 1, Len(p)) = p

\* k in s, for strings
Contains(s, k) ==
    \E i \in 0..(Len(s) - Len(k)) : SubSeq(s, i + 1, i + Len(k)) = k

\* urlparse(url).netloc: what stands between the "//" after the scheme and
\* the next "/", "?" or "#"; empty for a URL without "//".  The prefixes
\* "https://" and "http://" are one symbol; after another scheme the "//"
\* is two symbols.
Netloc(url) ==
    LET rest == IF url # <<>> /\ Head(url) \in {"https://", "http://"}
                THEN Tail(url)
                ELSE IF Len(url) >= 3 /\ url[2] = "/" /\ url[3] = "/"
                THEN SubSeq(url, 4, Len(url))
                ELSE <<>>
        stops == {i \in 1..Len(rest) : rest[i] \in {"/", "?", "#"}}
        last == IF stops = {}
                THEN Len(rest)
                ELSE (CHOOSE i \in stops : \A j \in stops : i <= j) - 1
    IN  SubSeq(rest, 1, last)

(***************************************************************************)
(* The site crawled: the transport and the markup parser are capabilities  *)
(* outside the program, so a page is the set of absolute URLs its anchors  *)
(* resolve to (urljoin) and the text extract_text_content gets from it.    *)
(***************************************************************************)
Seed == <<"https://", "a", "/">>
PageOne == <<"https://", "a", "/", "1">>
PageTwo == <<"https://", "a", "/", "2">>
PageThree == <<"https://", "a", "/", "3">>
OtherHost == <<"https://", "b", "/", "1">>
NearHost == <<"https://", "a", "b", "/", "1">>
MailLink == <<"mailto:", "x">>
AppLink == <<"whatsapp:", "/", "/", "a", "/", "1">>

Urls == {Seed, PageOne, PageTwo, PageThree, OtherHost, NearHost, MailLink,
         AppLink}

NoPage == [links |-> {}, text |-> <<>>]

\* A chain of pages, a link to another host and a mailto link.
SiteChain ==
    [u \in Urls |->
        CASE u = Seed -> [links |-> {PageOne, OtherHost, MailLink}, text |-> <<"x">>]
          [] u = PageOne -> [links |-> {PageTwo}, text |-> <<"=", "x">>]
          [] u = PageTwo -> [links |-> {PageThree}, text |-> <<"'", "=", "x">>]
          [] u = PageThree -> [links |-> {}, text |-> <<"=", "x">>]
          [] OTHER -> NoPage]

\* Two pages linked from the seed, one of them on a host whose name
\* contains the seed's, and a link back to the seed.
SiteFan ==
    [u \in Urls |->
        CASE u = Seed -> [links |-> {PageOne, NearHost}, text |-> <<"x">>]
          [] u = PageOne -> [links |-> {Seed, NearHost}, text |-> <<"x", "x", "x">>]
          [] u = NearHost -> [links |-> {PageOne}, text |-> <<"x", "x">>]
          [] OTHER -> NoPage]

\* A seed page without any link to follow: another host, a mailto link and
\* an application link whose authority is the seed's host.
SiteLeaf ==
    [u \in Urls |->
        CASE u = Seed -> [links |-> {OtherHost, MailLink, AppLink},
                          text |-> <<"x">>]
          [] OTHER -> NoPage]

Sites == {SiteChain, SiteFan, SiteLeaf}

(***************************************************************************)
(* ScraperConfig (src/scan.py:369-532)                                     *)
(***************************************************************************)
MaxDepth == 2
MaxRetries == 2
MaxConcurrent == 2

\* The defaults of CircuitBreaker.__init__ that WebScraper.__init__ keeps.
DefaultSuccessThreshold == 3
DefaultRecoveryTimeout == 60
DefaultMinRequests == 10

\* The configurations the runs range over; the filter fields and
\* excluded_protocols have their defaults.
Configs ==
    [domain : {Seed},
     max_depth : {<<>>} \cup {<<d>> : d \in 0..MaxDepth},
     include_keywords : {{}},
     exclude_keywords : {{}},
     start_with : {<<>>, PageOne},
     split_length : {0, 2},
     excluded_protocols : {{<<"mailto:">>, <<"tel:">>, <<"whatsapp:">>}},
     max_retries : 0..MaxRetries,
     concurrent_requests : 1..MaxConcurrent,
     circuit_breaker_enabled : BOOLEAN,
     circuit_breaker_threshold : {1, 2},
     circuit_breaker_rate : {<<1, 2>>}]

\* WebScraper.__init__: the breaker's constructor arguments.
ScraperBreakerParams(c) ==
    [failure_threshold |-> c.circuit_breaker_threshold,
     success_threshold |-> DefaultSuccessThreshold,
     recovery_timeout |-> DefaultRecoveryTimeout,
     rate_num |-> c.circuit_breaker_rate[1],
     rate_den |-> c.circuit_breaker_rate[2],
     min_requests |-> DefaultMinRequests]

\* WebScraper.__init__: self._domain_netloc
DomainNetloc(c) == Netloc(c.domain)

(***************************************************************************)
(* WebScraper.should_follow_url                                            *)
(***************************************************************************)
\* should_follow_url with the exclude test made an elif of the include test.
should_follow_url_elif(url, c) ==
    IF c.start_with # <<>> /\ ~StartsWith(url, c.start_with) THEN FALSE
    ELSE IF c.include_keywords # {}
            /\ ~\E k \in c.include_keywords : Contains(url, k) THEN FALSE
    ELSE IF c.include_keywords = {} /\ c.exclude_keywords # {}
            /\ \E k \in c.exclude_keywords : Contains(url, k) THEN FALSE
    ELSE IF \E pr \in c.excluded_protocols : StartsWith(url, pr) THEN FALSE
    ELSE IF ~Contains(Netloc(url), DomainNetloc(c)) THEN FALSE
    ELSE TRUE

\* should_follow_url without the excluded_protocols test.
should_follow_url_any_protocol(url, c) ==
    IF c.start_with # <<>> /\ ~StartsWith(url, c.start_with) THEN FALSE
    ELSE IF c.exclude_keywords # {}
            /\ \E k \in c.exclude_keywords : Contains(url, k) THEN FALSE
    ELSE IF c.include_keywords # {}
            /\ ~\E k \in c.include_keywords : Contains(url, k) THEN FALSE
    ELSE IF ~Contains(Netloc(url), DomainNetloc(c)) THEN FALSE
    ELSE TRUE

\* should_follow_url: the tests in the order of the code.
should_follow_url(url, c) ==
    IF c.start_with # <<>> /\ ~StartsWith(url, c.start_with) THEN FALSE
    ELSE IF c.exclude_keywords # {}
            /\ \E k \in c.exclude_keywords : Contains(url, k) THEN FALSE
    ELSE IF c.include_keywords # {}
            /\ ~\E k \in c.include_keywords : Contains(url, k) THEN FALSE
    ELSE IF \E pr \in c.excluded_protocols : StartsWith(url, pr) THEN FALSE
    ELSE IF ~Contains(Netloc(url), DomainNetloc(c)) THEN FALSE
    ELSE TRUE

(***************************************************************************)
(* WebScraper.fetch_url_with_retry                                         *)
(***************************************************************************)
\* What one GET can end with: a decoded body; HTTP 429; HTTP >= 400; a
\* ClientError or timeout; an exception of another class before anything
\* is recorded (a Retry-After that is no integer); an unknown charset,
\* raised by decode after record_success.
Responses ==
    {"ok", "rate_limited", "http_error", "transport_error",
     "unexpected_error", "decode_error"}

NewFetch ==
    [pc |-> "idle", attempt |-> 0, gets |-> 0, sleeps |-> 0, result |-> "none"]

\* The head of the for loop at iteration a: issue the GET of attempt a, or
\* fall off the loop and return None.
FetchAttempt(f, a, c) ==
    IF a < c.max_retries
    THEN [f EXCEPT !.pc = "get", !.attempt = a, !.gets = @ + 1]
    ELSE [f EXCEPT !.pc = "done", !.result = "None"]

\* The call's entry without the breaker check.
FetchEnterUnchecked(b, p, t, c) == FetchAttempt(NewFetch, 0, c)

\* The call's entry: raise CircuitBreakerOpen if the breaker reads open,
\* otherwise start the loop.
FetchEnter(b, p, t, c) ==
    IF c.circuit_breaker_enabled /\ IsOpen(b, p, t)
    THEN [NewFetch EXCEPT !.pc = "done", !.result = "CircuitBreakerOpen"]
    ELSE FetchAttempt(NewFetch, 0, c)

\* The breaker after the entry's read of is_open (and of stats).
BreakerOnEnter(b, p, t, c) ==
    IF c.circuit_breaker_enabled THEN StateRead(b, p, t) ELSE b

\* The call after the response r to its GET.
FetchOnResponse(f, r, c) ==
    CASE r = "ok" -> [f EXCEPT !.pc = "done", !.result = "content"]
      [] r = "rate_limited" -> [f EXCEPT !.pc = "sleep", !.sleeps = @ + 1]
      [] r \in {"http_error", "transport_error"} ->
            IF f.attempt + 1 < c.max_retries
            THEN [f EXCEPT !.pc = "sleep", !.sleeps = @ + 1]
            ELSE [f EXCEPT !.pc = "done", !.result = "None"]
      [] OTHER -> [f EXCEPT !.pc = "done", !.result = "None"]

\* The breaker after the response r at time t.
BreakerOnResponse(b, p, t, r, c) ==
    IF ~c.circuit_breaker_enabled THEN b
    ELSE CASE r = "ok" -> RecordSuccess(b, p)
           [] r = "decode_error" -> RecordFailure(RecordSuccess(b, p), p, t)
           [] OTHER -> RecordFailure(b, p, t)

\* The call after its sleep, with one iteration more than max_retries.
FetchOnWakeOneMore(f, c) ==
    IF f.attempt + 1 <= c.max_retries
    THEN [f EXCEPT !.pc = "get", !.attempt = @ + 1, !.gets = @ + 1]
    ELSE [f EXCEPT !.pc = "done", !.result = "None"]

\* The call after its sleep: the next iteration of the loop.
FetchOnWake(f, c) == FetchAttempt(f, f.attempt + 1, c)

(***************************************************************************)
(* WebScraper.process_url and WebScraper.get_all_pages                     *)
(***************************************************************************)
NewTask == [pc |-> "new", f |-> NewFetch, found |-> {}, raised |-> FALSE]

\* A depth range with one level more.
DepthExhaustedOnePast(d, c) == d > c.max_depth[1] + 1

\* The for loop of get_all_pages is over range(int(max_depth) + 1).
DepthExhausted(d, c) == d > c.max_depth[1]

\* A semaphore that hands out permits without counting those taken.
FreePermitsUncounted == cfg.concurrent_requests

\* The semaphore's free permits: concurrent_requests less the tasks inside
\* "async with semaphore".
FreePermits == cfg.concurrent_requests
               - Cardinality({u \in DOMAIN tasks : tasks[u].pc = "fetching"})

\* process_url without its except clause: CircuitBreakerOpen leaves the task.
ProcessUrlResultNoCatch(u, result, w, c) ==
    CASE result = "content" ->
            [found |-> {l \in w[u].links : should_follow_url(l, c)},
             raised |-> FALSE]
      [] result = "CircuitBreakerOpen" -> [found |-> {}, raised |-> TRUE]
      [] OTHER -> [found |-> {}, raised |-> FALSE]

\* process_url going on to the link loop whatever the fetch call returned.
ProcessUrlResultLinksAnyway(u, result, w, c) ==
    [found |-> {l \in w[u].links : should_follow_url(l, c)}, raised |-> FALSE]

\* process_url once its fetch call has ended with result: the except clause
\* turns CircuitBreakerOpen into an empty set, None gives an empty set, a
\* body gives its links that pass should_follow_url.
ProcessUrlResult(u, result, w, c) ==
    CASE result = "content" ->
            [found |-> {l \in w[u].links : should_follow_url(l, c)},
             raised |-> FALSE]
      [] OTHER -> [found |-> {}, raised |-> FALSE]

\* The task of u after a step of its fetch call that left it as f.
TaskAfter(u, f) ==
    IF f.pc = "done"
    THEN LET r == ProcessUrlResult(u, f.result, web, cfg)
         IN  [pc |-> "done", f |-> f, found |-> r.found, raised |-> r.raised]
    ELSE [pc |-> "fetching", f |-> f, found |-> {}, raised |-> FALSE]

\* The value the try block of run() gets from get_all_pages.
Discovered(us, raised) == IF raised THEN {} ELSE us

\* run() after discovery, with the URL set us: return at once when it is
\* empty, otherwise create the file, write the header, start the loop.
AfterDiscovery(us) ==
    /\ urls' = us
    /\ IF us = {}
       THEN /\ rpc' = "done"
            /\ outcome' = "returned"
            /\ UNCHANGED <<fs, pending>>
       ELSE /\ rpc' = "content"
            /\ fs' = [fs EXCEPT !.file = TRUE]
            /\ pending' = us
            /\ UNCHANGED outcome

\* run() up to the first depth level: the output directory is made, then
\* get_all_pages evaluates int(max_depth), which raises OverflowError for
\* float('inf').
RunStart ==
    /\ rpc = "start"
    /\ fs' = [fs EXCEPT !.dir = TRUE]
    /\ IF cfg.max_depth = <<>>
       THEN /\ rpc' = "done"
            /\ outcome' = "OverflowError"
            /\ UNCHANGED <<to_visit, depth>>
       ELSE /\ rpc' = "level"
            /\ to_visit' = {cfg.domain}
            /\ depth' = 0
            /\ UNCHANGED outcome
    /\ UNCHANGED <<call, cbVars, cfg, web, rows, visited, seen_content, all_urls,
                   tasks, urls, pending, cf, cur, extracted>>

\* The head of a depth level without the test of the breaker.
LevelStartNoBreakerTest ==
    /\ rpc = "level"
    /\ IF DepthExhausted(depth, cfg) \/ to_visit = {}
       THEN /\ AfterDiscovery(Discovered(all_urls, FALSE))
            /\ UNCHANGED <<cb, tasks>>
       ELSE /\ tasks' = [u \in to_visit |-> NewTask]
            /\ rpc' = "gather"
            /\ UNCHANGED <<cb, urls, outcome, fs, pending>>
    /\ UNCHANGED <<call, cbp, now, hist, cfg, web, rows, visited, seen_content,
                   all_urls, to_visit, depth, cf, cur, extracted>>

\* The head of one depth level: leave the loop when the range is used up,
\* the frontier is empty or the breaker reads open; otherwise create the
\* level's tasks.
LevelStart ==
    /\ rpc = "level"
    /\ IF DepthExhausted(depth, cfg) \/ to_visit = {}
       THEN /\ AfterDiscovery(Discovered(all_urls, FALSE))
            /\ UNCHANGED <<cb, tasks>>
       ELSE IF cfg.circuit_breaker_enabled /\ IsOpen(cb, cbp, now)
            THEN /\ AfterDiscovery(Discovered(all_urls, FALSE))
                 /\ cb' = StateRead(cb, cbp, now)
                 /\ UNCHANGED tasks
            ELSE /\ tasks' = [u \in to_visit |-> NewTask]
                 /\ rpc' = "gather"
                 /\ cb' = BreakerOnEnter(cb, cbp, now, cfg)
                 /\ UNCHANGED <<urls, outcome, fs, pending>>
    /\ UNCHANGED <<call, cbp, now, hist, cfg, web, rows, visited, seen_content,
                   all_urls, to_visit, depth, cf, cur, extracted>>

\* A task that starts without adding its URL to the visited set.
TaskStartNoMark(u) ==
    /\ rpc = "gather"
    /\ tasks[u].pc = "new"
    /\ IF DepthExhausted(depth, cfg) \/ u \in visited
       THEN /\ tasks' = [tasks EXCEPT ![u].pc = "done"]
            /\ UNCHANGED cb
       ELSE IF FreePermits > 0
            THEN /\ tasks' = [tasks EXCEPT
                                ![u] = TaskAfter(u, FetchEnter(cb, cbp, now, cfg))]
                 /\ cb' = BreakerOnEnter(cb, cbp, now, cfg)
            ELSE /\ tasks' = [tasks EXCEPT ![u].pc = "waiting"]
                 /\ UNCHANGED cb
    /\ UNCHANGED <<call, cbp, now, hist, cfg, web, rpc, outcome, fs, rows, visited,
                   seen_content, all_urls, to_visit, depth, urls, pending, cf,
                   cur, extracted>>

\* A task runs from its start to its first suspension: the visited test,
\* the mark, and, when a permit is free, the entry of its fetch call.
TaskStart(u) ==
    /\ rpc = "gather"
    /\ tasks[u].pc = "new"
    /\ IF DepthExhausted(depth, cfg) \/ u \in visited
       THEN /\ tasks' = [tasks EXCEPT ![u].pc = "done"]
            /\ UNCHANGED <<visited, cb>>
       ELSE /\ visited' = visited \cup {u}
            /\ IF FreePermits > 0
               THEN /\ tasks' = [tasks EXCEPT
                                   ![u] = TaskAfter(u, FetchEnter(cb, cbp, now, cfg))]
                    /\ cb' = BreakerOnEnter(cb, cbp, now, cfg)
               ELSE /\ tasks' = [tasks EXCEPT ![u].pc = "waiting"]
                    /\ UNCHANGED cb
    /\ UNCHANGED <<call, cbp, now, hist, cfg, web, rpc, outcome, fs, rows,
                   seen_content, all_urls, to_visit, depth, urls, pending, cf,
                   cur, extracted>>

\* Every task of a level starts before the event loop handles any I/O.
AllStarted == \A u \in DOMAIN tasks : tasks[u].pc # "new"

\* A task waiting for the semaphore gets a permit and enters its fetch call.
TaskAcquire(u) ==
    /\ rpc = "gather"
    /\ AllStarted
    /\ tasks[u].pc = "waiting"
    /\ FreePermits > 0
    /\ tasks' = [tasks EXCEPT ![u] = TaskAfter(u, FetchEnter(cb, cbp, now, cfg))]
    /\ cb' = BreakerOnEnter(cb, cbp, now, cfg)
    /\ UNCHANGED <<call, cbp, now, hist, cfg, web, rpc, outcome, fs, rows, visited,
                   seen_content, all_urls, to_visit, depth, urls, pending, cf,
                   cur, extracted>>

\* The GET of a task's fetch call ends with response r.
TaskResponse(u, r) ==
    /\ rpc = "gather"
    /\ AllStarted
    /\ tasks[u].pc = "fetching"
    /\ tasks[u].f.pc = "get"
    /\ tasks' = [tasks EXCEPT ![u] = TaskAfter(u, FetchOnResponse(tasks[u].f, r, cfg))]
    /\ cb' = BreakerOnResponse(cb, cbp, now, r, cfg)
    /\ UNCHANGED <<call, cbp, now, hist, cfg, web, rpc, outcome, fs, rows, visited,
                   seen_content, all_urls, to_visit, depth, urls, pending, cf,
                   cur, extracted>>

\* The sleep of a task's fetch call ends.
TaskWake(u) ==
    /\ rpc = "gather"
    /\ AllStarted
    /\ tasks[u].pc = "fetching"
    /\ tasks[u].f.pc = "sleep"
    /\ tasks' = [tasks EXCEPT ![u] = TaskAfter(u, FetchOnWake(tasks[u].f, cfg))]
    /\ UNCHANGED <<call, cbVars, cfg, web, rpc, outcome, fs, rows, visited,
                   seen_content, all_urls, to_visit, depth, urls, pending, cf,
                   cur, extracted>>

\* A gather that returns as soon as one task of the level is done.
GatherDoneFirstCompleted ==
    /\ rpc = "gather"
    /\ \E u \in DOMAIN tasks : tasks[u].pc = "done"
    /\ tasks' = <<>>
    /\ all_urls' = all_urls \cup UNION {tasks[u].found : u \in DOMAIN tasks}
    /\ to_visit' = UNION {tasks[u].found \ visited : u \in DOMAIN tasks}
    /\ depth' = depth + 1
    /\ rpc' = "level"
    /\ UNCHANGED <<call, cbVars, cfg, web, rows, visited, seen_content, cf, cur,
                   extracted, urls, outcome, fs, pending>>

\* A gather whose results are merged together with the URLs of the level.
GatherDoneWithLevel ==
    /\ rpc = "gather"
    /\ \A u \in DOMAIN tasks : tasks[u].pc = "done"
    /\ tasks' = <<>>
    /\ all_urls' = all_urls \cup DOMAIN tasks
                      \cup UNION {tasks[u].found : u \in DOMAIN tasks}
    /\ to_visit' = UNION {tasks[u].found \ visited : u \in DOMAIN tasks}
    /\ depth' = depth + 1
    /\ rpc' = "level"
    /\ UNCHANGED <<call, cbVars, cfg, web, rows, visited, seen_content, cf, cur,
                   extracted, urls, outcome, fs, pending>>

\* asyncio.gather returns: the results are merged into all_urls and the
\* next frontier.  Had a task raised CircuitBreakerOpen, gather would raise
\* it through get_all_pages to the except clause of run().
GatherDone ==
    /\ rpc = "gather"
    /\ \A u \in DOMAIN tasks : tasks[u].pc = "done"
    /\ tasks' = <<>>
    /\ IF \E u \in DOMAIN tasks : tasks[u].raised
       THEN /\ AfterDiscovery(Discovered(all_urls, TRUE))
            /\ UNCHANGED <<all_urls, to_visit, depth>>
       ELSE /\ all_urls' = all_urls \cup UNION {tasks[u].found : u \in DOMAIN tasks}
            /\ to_visit' = UNION {tasks[u].found \ visited : u \in DOMAIN tasks}
            /\ depth' = depth + 1
            /\ rpc' = "level"
            /\ UNCHANGED <<urls, outcome, fs, pending>>
    /\ UNCHANGED <<call, cbVars, cfg, web, rows, visited, seen_content, cf, cur,
                   extracted>>

(***************************************************************************)
(* The content pipeline: split_text, sanitize_csv_value, the loop of run() *)
(***************************************************************************)
\* split_text with the range stopped where a whole chunk no longer fits.
split_text_whole_chunks(text, max_length) ==
    IF text = <<>> THEN <<>>
    ELSE IF max_length = 0 THEN <<text>>
    ELSE [i \in 1..(Len(text) \div max_length) |->
            SubSeq(text, (i - 1) * max_length + 1, i * max_length)]

\* WebScraper.split_text
split_text(text, max_length) ==
    IF text = <<>> THEN <<>>
    ELSE IF max_length = 0 THEN <<text>>
    ELSE [i \in 1..((Len(text) + max_length - 1) \div max_length) |->
            SubSeq(text, (i - 1) * max_length + 1,
                   IF i * max_length < Len(text) THEN i * max_length ELSE Len(text))]

\* sanitize_csv_value with the two control characters left out of the tuple.
sanitize_csv_value_printable(value) ==
    IF value # <<>> /\ value[1] \in {"=", "+", "-", "@"}
    THEN <<"'">> \o value
    ELSE value

\* WebScraper.sanitize_csv_value
sanitize_csv_value(value) ==
    IF value # <<>> /\ value[1] \in {"=", "+", "-", "@", "\t", "\r"}
    THEN <<"'">> \o value
    ELSE value

\* hashlib.sha256(chunk.encode()).hexdigest(): a digest without collisions
\* on the chunks of the model, computed symbol by symbol.
SymbolCode(ch) ==
    CASE ch = "=" -> 1 [] ch = "'" -> 2 [] ch = "x" -> 3 [] OTHER -> 4

RECURSIVE content_hash(_)
content_hash(chunk) ==
    IF chunk = <<>> THEN 0
    ELSE 5 * content_hash(SubSeq(chunk, 1, Len(chunk) - 1))
         + SymbolCode(chunk[Len(chunk)])

\* A dedup test that never finds a digest.
SeenBeforeNever(h, seen) == FALSE

\* The dedup test of the chunk loop.
SeenBefore(h, seen) == h \in seen

\* A chunk loop that numbers the rows it writes: a chunk it skips takes no
\* number.
RECURSIVE WriteChunksRenumbered(_, _, _, _)
WriteChunksRenumbered(u, chunks, i, st) ==
    IF i > Len(chunks) THEN st
    ELSE LET chunk == chunks[i]
             h == content_hash(chunk)
             written == {k \in DOMAIN st.rows :
                            st.rows[k].URL = sanitize_csv_value(u)}
         IN  IF chunk = <<>> \/ SeenBefore(h, st.seen)
             THEN WriteChunksRenumbered(u, chunks, i + 1, st)
             ELSE WriteChunksRenumbered(u, chunks, i + 1,
                    [rows |-> Append(st.rows,
                                [URL |-> sanitize_csv_value(u),
                                 Content |-> sanitize_csv_value(chunk),
                                 ChunkNumber |-> Cardinality(written) + 1,
                                 chunk |-> chunk]),
                     seen |-> st.seen \cup {h}])

\* The chunk loop of run() from chunk number i on: st is the rows written
\* and the digests seen so far.  A row keeps, beside its three columns, the
\* chunk it was made from.
RECURSIVE WriteChunks(_, _, _, _)
WriteChunks(u, chunks, i, st) ==
    IF i > Len(chunks) THEN st
    ELSE LET chunk == chunks[i]
             h == content_hash(chunk)
         IN  IF chunk = <<>> \/ SeenBefore(h, st.seen)
             THEN WriteChunks(u, chunks, i + 1, st)
             ELSE WriteChunks(u, chunks, i + 1,
                    [rows |-> Append(st.rows,
                                [URL |-> sanitize_csv_value(u),
                                 Content |-> sanitize_csv_value(chunk),
                                 ChunkNumber |-> i,
                                 chunk |-> chunk]),
                     seen |-> st.seen \cup {h}])

\* The body of the content loop once the fetch call of u has ended as f.
ContentAfter(u, f) ==
    IF f.pc = "done"
    THEN /\ cf' = NewFetch
         /\ IF f.result = "content"
            THEN LET st == WriteChunks(u, split_text(web[u].text, cfg.split_length),
                                       1, [rows |-> rows, seen |-> seen_content])
                 IN  /\ rows' = st.rows
                     /\ seen_content' = st.seen
                     /\ extracted' = extracted \cup {u}
            ELSE UNCHANGED <<rows, seen_content, extracted>>
    ELSE /\ cf' = f
         /\ UNCHANGED <<rows, seen_content, extracted>>

\* The content loop takes the next URL: it breaks when the breaker reads
\* open (or when the fetch call raises CircuitBreakerOpen), otherwise the
\* fetch call of u begins.
ContentNext(u) ==
    /\ rpc = "content"
    /\ cf.pc = "idle"
    /\ cb' = BreakerOnEnter(cb, cbp, now, cfg)
    /\ LET f == FetchEnter(cb, cbp, now, cfg)
       IN  IF (cfg.circuit_breaker_enabled /\ IsOpen(cb, cbp, now))
              \/ f.result = "CircuitBreakerOpen"
           THEN /\ rpc' = "done"
                /\ outcome' = "returned"
                /\ UNCHANGED <<pending, cur, cf, rows, seen_content, extracted>>
           ELSE /\ pending' = pending \ {u}
                /\ cur' = u
                /\ ContentAfter(u, f)
                /\ UNCHANGED <<rpc, outcome>>
    /\ UNCHANGED <<call, cbp, now, hist, cfg, web, fs, visited, all_urls, to_visit,
                   depth, tasks, urls>>

\* The GET of the content loop's fetch call ends with response r.
ContentResponse(r) ==
    /\ rpc = "content"
    /\ cf.pc = "get"
    /\ cb' = BreakerOnResponse(cb, cbp, now, r, cfg)
    /\ ContentAfter(cur, FetchOnResponse(cf, r, cfg))
    /\ UNCHANGED <<call, cbp, now, hist, cfg, web, rpc, outcome, fs, visited,
                   all_urls, to_visit, depth, tasks, urls, pending, cur>>

\* The sleep of the content loop's fetch call ends.
ContentWake ==
    /\ rpc = "content"
    /\ cf.pc = "sleep"
    /\ ContentAfter(cur, FetchOnWake(cf, cfg))
    /\ UNCHANGED <<call, cbVars, cfg, web, rpc, outcome, fs, visited, all_urls,
                   to_visit, depth, tasks, urls, pending, cur>>

\* The content loop has gone through every URL: run() returns the path.
ContentEnd ==
    /\ rpc = "content"
    /\ cf.pc = "idle"
    /\ pending = {}
    /\ rpc' = "done"
    /\ outcome' = "returned"
    /\ UNCHANGED <<call, cbVars, cfg, web, fs, rows, visited, seen_content, all_urls,
                   to_visit, depth, tasks, urls, pending, cf, cur, extracted>>

(***************************************************************************)
(* One run of the scraper.                                                 *)
(***************************************************************************)
TickSeconds == 60
MaxClock == 121

\* Time passes while run() waits for the network or sleeps.  The clock is
\* read only by the state property of an OPEN breaker and by record_failure,
\* which sets the time the former compares with; time passing in another
\* state changes nothing the program reads and is left out.
Tick ==
    /\ rpc \in {"level", "gather", "content"}
    /\ cfg.circuit_breaker_enabled
    /\ cb.state = OPEN
    /\ now + TickSeconds <= MaxClock
    /\ now' = now + TickSeconds
    /\ UNCHANGED <<call, cb, cbp, hist, runVars>>

\* ScraperConfig and WebScraper.__init__, before run() is called.
Init ==
    /\ cfg \in Configs
    /\ web \in Sites
    /\ cbp = ScraperBreakerParams(cfg)
    /\ cb = NewBreaker
    /\ now = 1
    /\ hist = NewHist
    /\ rpc = "start"
    /\ outcome = "none"
    /\ fs = [dir |-> FALSE, file |-> FALSE]
    /\ rows = <<>>
    /\ visited = {}
    /\ seen_content = {}
    /\ all_urls = {}
    /\ to_visit = {}
    /\ depth = 0
    /\ tasks = <<>>
    /\ urls = {}
    /\ pending = {}
    /\ cf = NewFetch
    /\ cur = <<>>
    /\ extracted = {}
    /\ call = <<>>

Next ==
    \/ RunStart
    \/ LevelStart
    \/ \E u \in DOMAIN tasks : TaskStart(u)
    \/ \E u \in DOMAIN tasks : TaskAcquire(u)
    \/ \E u \in DOMAIN tasks, r \in Responses : TaskResponse(u, r)
    \/ \E u \in DOMAIN tasks : TaskWake(u)
    \/ GatherDone
    \/ \E u \in pending : ContentNext(u)
    \/ \E r \in Responses : ContentResponse(r)
    \/ ContentWake
    \/ ContentEnd
    \/ Tick

Spec == Init /\ [][Next]_vars

\* The steps of run() itself: those of Next in which no time passes.
Progress == Next /\ now' = now

\* The runs whose max_depth is set; split_length, which split_text alone
\* reads, is None.
InitBounded == Init /\ cfg.max_depth # <<>> /\ cfg.split_length = 0

\* A run with max_depth set, on an event loop that goes on running what is
\* ready, with a transport whose every request ends (with an answer, an
\* error or a timeout) and sleeps that end.
SpecLive == InitBounded /\ [][Next]_vars /\ WF_vars(Progress)

(***************************************************************************)
(* Single calls of the static methods and of should_follow_url, on         *)
(* arguments drawn from bounded sets.                                      *)
(***************************************************************************)
MaxText == 4
MaxSplit == 3
MaxValue == 2

\* The strings over the alphabet S of length up to n.
Strings(S, n) == UNION {[1..k -> S] : k \in 0..n}

\* ''.join(chunks)
RECURSIVE Join(_)
Join(chunks) ==
    IF chunks = <<>> THEN <<>> ELSE Head(chunks) \o Join(Tail(chunks))

\* The arguments of split_text: a text, and max_length with 0 for None.
SplitTextCalls ==
    [op : {"split_text"}, text : Strings({"x", "y"}, MaxText),
     max_length : 0..MaxSplit, done : {FALSE}, result : {<<>>}]

\* The arguments of sanitize_csv_value.
SanitizeCalls ==
    [op : {"sanitize_csv_value"},
     value : Strings({"=", "+", "-", "@", "\t", "\r", "'", "x"}, MaxValue),
     done : {FALSE}, result : {<<>>}]

\* The chunk loop of run() on one page: its URL, its text, split_length.
ChunkLoopCalls ==
    [op : {"chunk_loop"}, url : {Seed, <<"=", "a">>},
     text : Strings({"=", "'", "x"}, MaxValue), max_length : {0, 1},
     done : {FALSE}, result : {<<>>}]

\* The filter settings should_follow_url reads.
FilterConfigs ==
    [domain : {Seed},
     start_with : {<<>>, <<"https://", "a">>},
     include_keywords : {{}, {<<"1">>}},
     exclude_keywords : {{}, {<<"1">>}, {<<"b">>, <<"x">>}},
     excluded_protocols : {{}, {<<"mailto:">>, <<"tel:">>, <<"whatsapp:">>}}]

\* The arguments of should_follow_url and the configuration it reads.
FilterCalls ==
    [op : {"should_follow_url"}, url : Urls, config : FilterConfigs,
     done : {FALSE}, result : {<<>>}]

CallSplitText ==
    /\ call.op = "split_text" /\ ~call.done
    /\ call' = [call EXCEPT !.done = TRUE,
                            !.result = split_text(call.text, call.max_length)]
    /\ UNCHANGED <<cbVars, runVars>>

CallSanitize ==
    /\ call.op = "sanitize_csv_value" /\ ~call.done
    /\ call' = [call EXCEPT !.done = TRUE,
                            !.result = sanitize_csv_value(call.value)]
    /\ UNCHANGED <<cbVars, runVars>>

CallChunkLoop ==
    /\ call.op = "chunk_loop" /\ ~call.done
    /\ call' = [call EXCEPT
                  !.done = TRUE,
                  !.result = WriteChunks(call.url,
                                         split_text(call.text, call.max_length),
                                         1, [rows |-> <<>>, seen |-> {}]).rows]
    /\ UNCHANGED <<cbVars, runVars>>

CallShouldFollow ==
    /\ call.op = "should_follow_url" /\ ~call.done
    /\ call' = [call EXCEPT !.done = TRUE,
                            !.result = should_follow_url(call.url, call.config)]
    /\ UNCHANGED <<cbVars, runVars>>

\* process_url on a fetched page: the page's URL, the site, the filter.
ProcessUrlCalls ==
    [op : {"process_url"}, url : {Seed, PageOne}, site : Sites,
     config : FilterConfigs, done : {FALSE}, result : {<<>>}]

CallProcessUrl ==
    /\ call.op = "process_url" /\ ~call.done
    /\ call' = [call EXCEPT
                  !.done = TRUE,
                  !.result = ProcessUrlResult(call.url, "content", call.site,
                                              call.config).found]
    /\ UNCHANGED <<cbVars, runVars>>

(***************************************************************************)
(* ScraperConfig._validate (src/scan.py:414-471).  The seed's netloc is    *)
(* one symbol, its host; the answers of ipaddress and of the resolver for  *)
(* the hosts of the model are tabulated.                                   *)
(***************************************************************************)
\* The hosts _validate compares the hostname with.
LocalNames == {"localhost", "127.0.0.1", "0.0.0.0", "::1"}

\* Hosts ipaddress.ip_address() parses, and the addresses hosts resolve to.
IpLiterals == {"127.0.0.1", "0.0.0.0", "::1", "127.0.0.2", "10.0.0.1",
               "240.0.0.1", "4000::1", "fd00::1", "8.8.8.8"}

\* is_private, is_loopback and is_reserved of an address, as ipaddress
\* answers them.
IpFlags(a) ==
    CASE a \in {"127.0.0.1", "127.0.0.2", "::1"} ->
            [private |-> TRUE, loopback |-> TRUE, reserved |-> FALSE]
      [] a \in {"10.0.0.1", "0.0.0.0", "fd00::1"} ->
            [private |-> TRUE, loopback |-> FALSE, reserved |-> FALSE]
      [] a = "240.0.0.1" ->
            [private |-> TRUE, loopback |-> FALSE, reserved |-> TRUE]
      [] a = "4000::1" ->
            [private |-> FALSE, loopback |-> FALSE, reserved |-> TRUE]
      [] OTHER ->
            [private |-> FALSE, loopback |-> FALSE, reserved |-> FALSE]

\* The address records of a name: what the resolver has for it, IPv4 and
\* IPv6 (the transport connects through getaddrinfo, which sees both).
AddressRecords(h) ==
    CASE h = "localhost" -> {"127.0.0.1", "::1"}
      [] h = "loop.example" -> {"127.0.0.2"}
      [] h = "intranet.example" -> {"10.0.0.1"}
      [] h = "reserved.example" -> {"240.0.0.1"}
      [] h = "v6only.example" -> {"fd00::1"}
      [] h \in {"www.example", "a"} -> {"8.8.8.8"}
      [] OTHER -> {}

Ipv6Addresses == {"::1", "4000::1", "fd00::1"}

\* socket.gethostbyname(hostname), which resolves IPv4 only: an IPv4
\* address of the name, socket.gaierror when it has none, or an exception
\* of another class (UnicodeError for an empty label, TypeError for the
\* None hostname of a netloc that is only a port).
Resolve(h) ==
    CASE h = "bad..example" -> "UnicodeError"
      [] h = ":80" -> "TypeError"
      [] OTHER -> LET v4 == AddressRecords(h) \ Ipv6Addresses
                  IN  IF v4 = {} THEN "gaierror" ELSE CHOOSE a \in v4 : TRUE

Hostnames == {"localhost", "loop.example", "intranet.example",
              "reserved.example", "v6only.example", "www.example",
              "nxdomain.example",
              "bad..example", ":80"}

\* urlparse(domain).hostname
Hostname(domain) == Netloc(domain)[1]

\* Whether the host test of _validate raises SecurityError for hostname h.
HostBlocked(h) ==
    IF h \in LocalNames THEN TRUE
    ELSE IF h \in IpLiterals
    THEN IpFlags(h).private \/ IpFlags(h).loopback \/ IpFlags(h).reserved
    ELSE LET r == Resolve(h)
         IN  IF r \in IpLiterals
             THEN IpFlags(r).private \/ IpFlags(r).loopback
             ELSE FALSE

\* _validate on the constructor's arguments c: "ok" or the exception raised.
\* An optional number is <<>> for None and <<n>> otherwise.
validate(c) ==
    IF c.domain = <<>> THEN "ConfigurationError"
    ELSE IF Head(c.domain) \notin {"http://", "https://"} THEN "ConfigurationError"
    ELSE IF Netloc(c.domain) = <<>> THEN "ConfigurationError"
    ELSE IF c.proxy = "None" /\ HostBlocked(Hostname(c.domain)) THEN "SecurityError"
    ELSE IF c.max_depth # <<>> /\ c.max_depth[1] < 0 THEN "ConfigurationError"
    ELSE IF c.max_retries < 0 THEN "ConfigurationError"
    ELSE IF c.base_delay < 0 THEN "ConfigurationError"
    ELSE IF c.concurrent_requests < 1 THEN "ConfigurationError"
    ELSE IF c.connections_per_host < 1 THEN "ConfigurationError"
    ELSE IF c.delay_between_requests < 0 THEN "ConfigurationError"
    ELSE IF c.split_length # <<>> /\ c.split_length[1] < 1 THEN "ConfigurationError"
    ELSE "ok"

\* Seeds: none, without scheme, with another scheme, without host, and
\* http(s) seeds on the hosts of the model.
Domains ==
    {<<>>, <<"a", "/">>, <<"ftp://", "a", "/">>, <<"https://">>}
    \cup {<<"http://", h, "/">> : h \in IpLiterals \cup Hostnames}
    \cup {Seed}

\* The constructor's arguments; timeout and the breaker settings are not
\* read by _validate.
ValidateCalls ==
    [op : {"ScraperConfig"},
     domain : Domains,
     proxy : {"None", "ProxyList"},
     max_depth : {<<>>, <<-1>>, <<0>>},
     max_retries : {-1, 0},
     base_delay : {-1, 0},
     concurrent_requests : {-1, 0, 1},
     connections_per_host : {-1, 0, 1},
     delay_between_requests : {-1, 0},
     timeout : {-1, 30},
     split_length : {<<>>, <<0>>},
     circuit_breaker_threshold : {-1, 10},
     circuit_breaker_rate : {<<-1, 2>>, <<1, 2>>},
     done : {FALSE}, result : {<<>>}]

CallValidate ==
    /\ call.op = "ScraperConfig" /\ ~call.done
    /\ call' = [call EXCEPT !.done = TRUE, !.result = validate(call)]
    /\ UNCHANGED <<cbVars, runVars>>

(***************************************************************************)
(* WebScraper._get_safe_output_directory (src/scan.py:803-819).  A path    *)
(* is a string with one symbol per character.                              *)
(***************************************************************************)
MaxHost == 5

\* The characters of the netlocs of the model; "w" and "a" are word
\* characters (\w), the others are not.
HostChars == {"w", "a", ".", "/"}

\* re.sub(r'[^\w\-.]', '_', name) left out: the name is taken as it is.
SubUnsafeNone(name) == name

\* re.sub(r'[^\w\-.]', '_', name)
SubUnsafe(name) ==
    [i \in 1..Len(name) |->
        IF name[i] \in {"w", "a", "_", "-", "."} THEN name[i] ELSE "_"]

\* name.lstrip('.')
RECURSIVE LStripDots(_)
LStripDots(name) ==
    IF name # <<>> /\ Head(name) = "." THEN LStripDots(Tail(name)) ELSE name

\* os.path.join(a, b)
PathJoin(a, b) ==
    IF b # <<>> /\ Head(b) = "/" THEN b
    ELSE IF a = <<>> \/ a[Len(a)] = "/" THEN a \o b
    ELSE a \o <<"/">> \o b

\* path.split('/')
RECURSIVE SplitPath(_, _)
SplitPath(path, part) ==
    IF path = <<>> THEN <<part>>
    ELSE IF Head(path) = "/" THEN <<part>> \o SplitPath(Tail(path), <<>>)
    ELSE SplitPath(Tail(path), Append(part, Head(path)))

\* os.path.normpath on the components of an absolute path: empty and "."
\* components go, ".." takes the component before it (none at the root).
RECURSIVE NormParts(_, _)
NormParts(parts, kept) ==
    IF parts = <<>> THEN kept
    ELSE LET p == Head(parts)
         IN  IF p = <<>> \/ p = <<".">> THEN NormParts(Tail(parts), kept)
             ELSE IF p = <<".", ".">>
             THEN NormParts(Tail(parts),
                            IF kept = <<>> THEN kept
                            ELSE SubSeq(kept, 1, Len(kept) - 1))
             ELSE NormParts(Tail(parts), Append(kept, p))

\* '/' + '/'.join(parts)
RECURSIVE JoinParts(_)
JoinParts(parts) ==
    IF parts = <<>> THEN <<>>
    ELSE <<"/">> \o Head(parts) \o JoinParts(Tail(parts))

\* os.path.abspath of an absolute path
AbsPath(path) ==
    LET parts == NormParts(SplitPath(path, <<>>), <<>>)
    IN  IF parts = <<>> THEN <<"/">> ELSE JoinParts(parts)

\* _get_safe_output_directory for the netloc and os.getcwd() given: the
\* path returned, or SecurityError.
safe_output_directory(netloc, cwd) ==
    LET stripped == LStripDots(SubUnsafe(netloc))
        safe_name == IF stripped = <<>> THEN <<"scraped_data">> ELSE stripped
        directory_path == PathJoin(cwd, safe_name)
    IN  IF ~StartsWith(AbsPath(directory_path), AbsPath(cwd))
        THEN [raised |-> "SecurityError", path |-> <<>>]
        ELSE [raised |-> "none", path |-> directory_path]

\* The netloc of the seed and the working directory.
SafeDirCalls ==
    [op : {"_get_safe_output_directory"},
     netloc : Strings(HostChars, MaxHost) \ {<<>>},
     cwd : {<<"/">>, <<"/", "w">>},
     done : {FALSE}, result : {<<>>}]

\* run() up to os.makedirs: the directory is made when no error was raised.
CallSafeDir ==
    /\ call.op = "_get_safe_output_directory" /\ ~call.done
    /\ call' = [call EXCEPT
                  !.done = TRUE,
                  !.result = LET r == safe_output_directory(call.netloc, call.cwd)
                             IN  [raised |-> r.raised, path |-> r.path,
                                  made |-> IF r.raised = "none"
                                           THEN {r.path} ELSE {}]]
    /\ UNCHANGED <<cbVars, runVars>>

(***************************************************************************)
(* Proxy providers (src/scan.py:70-160) and the waits of                   *)
(* WebScraper.fetch_url_with_retry (src/scan.py:599-686), on a scraper     *)
(* without circuit breaker.  Durations are in tenths of a second.          *)
(***************************************************************************)
MaxAttempts == 3
MaxCalls == 2

\* The providers of the model, as constructed: no proxy, a rotating list
\* of one or two proxies, and ScraperAPI with its optional settings off.
Providers ==
    {[kind |-> "NoProxy", proxies |-> <<>>, index |-> 0],
     [kind |-> "ScraperAPI", proxies |-> <<>>, index |-> 0]}
    \cup {[kind |-> "ProxyList", proxies |-> ps, index |-> 0] :
             ps \in {<<"p1">>, <<"p1", "p2">>}}

\* urllib.parse.quote(target_url, safe=''), on the symbols of the model.
Quote(s) ==
    [i \in 1..Len(s) |->
        CASE s[i] = "https://" -> "https%3A%2F%2F"
          [] s[i] = "/" -> "%2F"
          [] OTHER -> s[i]]

\* get_proxy_url of the provider p: the URL the GET is sent to.
get_proxy_url(p, target_url) ==
    IF p.kind = "ScraperAPI"
    THEN <<"http://", "api.scraperapi.com", "?", "api_key=", "k", "&", "url=">>
         \o Quote(target_url)
    ELSE target_url

\* A rotating list that never advances.
get_request_kwargs_first(p) ==
    IF p.kind = "ProxyList"
    THEN [proxy |-> <<p.proxies[(p.index % Len(p.proxies)) + 1]>>, provider |-> p]
    ELSE [proxy |-> <<>>, provider |-> p]

\* get_request_kwargs of the provider p: the transport proxy of the GET
\* (<<>> for none) and the provider afterwards.
get_request_kwargs(p) ==
    IF p.kind = "ProxyList"
    THEN [proxy |-> <<p.proxies[(p.index % Len(p.proxies)) + 1]>>,
          provider |-> [p EXCEPT !.index = @ + 1]]
    ELSE [proxy |-> <<>>, provider |-> p]

\* base_delay, in tenths of a second: 0.5 and the default 1.0.
BaseDelays == {5, 10}

\* random.uniform(0, 1), in tenths of a second: its least value and one
\* close to its bound.
Jitters == {0, 9}

\* The Retry-After header of a 429 response whose value int() accepts:
\* absent, or a number of seconds.
RetryAfters == {<<>>, <<0>>, <<2>>}

\* int(response.headers.get('Retry-After', base_delay)), in tenths.
RateLimitWait(c, retry_after) ==
    IF retry_after = <<>> THEN (c.base_delay \div 10) * 10
    ELSE retry_after[1] * 10

\* A backoff wait whose exponent is one more than the loop index.
BackoffWaitNextPower(c, attempt, jitter) ==
    c.base_delay * (2 ^ (attempt + 1)) + jitter

\* base_delay * (2 ** attempt) + random.uniform(0, 1)
BackoffWait(c, attempt, jitter) == c.base_delay * (2 ^ attempt) + jitter

\* The sleep that follows the response r to the GET of the call f, <<>> if
\* there is none.
SleepAfter(f, r, c, jitter, retry_after) ==
    CASE r = "rate_limited" -> <<RateLimitWait(c, retry_after)>>
      [] r \in {"http_error", "transport_error"} /\ f.attempt + 1 < c.max_retries
            -> <<BackoffWait(c, f.attempt, jitter)>>
      [] OTHER -> <<>>

\* A scraper on which fetch_url_with_retry is called for each of targets in
\* turn: k is the call in progress, f its position, sent the GETs of all
\* calls, result the outcomes of the calls ended and, when there is a single
\* target, handled the responses of its call with the sleep each was
\* followed by.
FetchCalls ==
    [op : {"fetch_url_with_retry"},
     max_retries : 0..MaxAttempts,
     base_delay : BaseDelays,
     circuit_breaker_enabled : {FALSE},
     provider : Providers,
     targets : {SubSeq(<<Seed, PageOne, PageTwo, PageThree>>, 1, n) :
                   n \in 1..MaxCalls},
     k : {1}, f : {NewFetch}, sent : {<<>>}, handled : {<<>>},
     done : {FALSE}, result : {<<>>}]

\* The call record once the fetch call in progress is at f: a GET goes
\* through the provider, an ended call leaves its result.
FetchCallAt(cl, f) ==
    CASE f.pc = "get" ->
            LET kw == get_request_kwargs(cl.provider)
            IN  [cl EXCEPT
                   !.f = f,
                   !.provider = kw.provider,
                   !.sent = Append(@, [target |-> cl.targets[cl.k],
                                       url |-> get_proxy_url(cl.provider,
                                                             cl.targets[cl.k]),
                                       proxy |-> kw.proxy,
                                       attempt |-> f.attempt])]
      [] f.pc = "done" ->
            [cl EXCEPT !.f = NewFetch,
                       !.result = Append(@, f.result),
                       !.k = @ + 1,
                       !.done = (cl.k = Len(cl.targets))]
      [] OTHER -> [cl EXCEPT !.f = f]

\* The next fetch call starts.
CallFetchBegin ==
    /\ call.op = "fetch_url_with_retry" /\ ~call.done
    /\ call.f.pc = "idle"
    /\ call' = FetchCallAt(call, FetchEnter(cb, cbp, now, call))
    /\ UNCHANGED <<cbVars, runVars>>

\* The GET of the call in progress ends with r.
CallFetchResponse(r, jitter, retry_after) ==
    /\ call.op = "fetch_url_with_retry" /\ ~call.done
    /\ call.f.pc = "get"
    /\ call' = FetchCallAt(
                  [call EXCEPT
                     !.handled = IF Len(call.targets) > 1 THEN @ ELSE
                                 Append(@, [response |-> r,
                                            attempt |-> call.f.attempt,
                                            retry_after |->
                                                IF r = "rate_limited"
                                                THEN retry_after ELSE <<>>,
                                            wait |-> SleepAfter(call.f, r, call,
                                                                jitter,
                                                                retry_after)])],
                  FetchOnResponse(call.f, r, call))
    /\ UNCHANGED <<cbVars, runVars>>

\* The sleep of the call in progress ends.
CallFetchWake ==
    /\ call.op = "fetch_url_with_retry" /\ ~call.done
    /\ call.f.pc = "sleep"
    /\ call' = FetchCallAt(call, FetchOnWake(call.f, call))
    /\ UNCHANGED <<cbVars, runVars>>

CallInputs ==
    SplitTextCalls \cup SanitizeCalls \cup ChunkLoopCalls \cup FilterCalls
    \cup ProcessUrlCalls \cup ValidateCalls \cup SafeDirCalls \cup FetchCalls

CallInit ==
    /\ call \in CallInputs
    /\ cbp = [failure_threshold |-> 10, success_threshold |-> DefaultSuccessThreshold,
              recovery_timeout |-> DefaultRecoveryTimeout,
              rate_num |-> 1, rate_den |-> 2, min_requests |-> DefaultMinRequests]
    /\ cb = NewBreaker
    /\ now = 1
    /\ hist = NewHist
    /\ cfg = <<>> /\ web = <<>> /\ rpc = "idle" /\ outcome = "none"
    /\ fs = <<>> /\ rows = <<>> /\ visited = {} /\ seen_content = {}
    /\ all_urls = {} /\ to_visit = {} /\ depth = 0 /\ tasks = <<>>
    /\ urls = {} /\ pending = {} /\ cf = <<>> /\ cur = <<>> /\ extracted = {}

CallNext ==
    \/ CallSplitText
    \/ CallSanitize
    \/ CallChunkLoop
    \/ CallShouldFollow
    \/ CallProcessUrl
    \/ CallValidate
    \/ CallSafeDir
    \/ CallFetchBegin
    \/ \E r \in Responses, jitter \in Jitters, retry_after \in RetryAfters :
          CallFetchResponse(r, jitter, retry_after)
    \/ CallFetchWake

SpecCall == CallInit /\ [][CallNext]_vars

(***************************************************************************)
(* Claims about the circuit breaker, checked under SpecCB.                 *)
(***************************************************************************)

\* C4: after failure_threshold consecutive record_failure() calls with no
\* record_success() in between (hist.failStreak counts them), is_open read
\* before recovery_timeout has passed since the last failure is true.
C4_OpenAfterThresholdFailures ==
    (/\ hist.failStreak >= cbp.failure_threshold
     /\ ~RecoveryElapsed(cb, cbp, now))
        => IsOpen(cb, cbp, now)

\* C4 witness: two consecutive failures reached a threshold of 2 before the
\* failure-rate rule could apply, and the breaker reads open.
C4_Witness ==
    /\ cbp.failure_threshold = 2
    /\ hist.failStreak = 2
    /\ cb.total_requests < cbp.min_requests
    /\ ~RecoveryElapsed(cb, cbp, now)
    /\ IsOpen(cb, cbp, now)

\* C5: once the last failure left the breaker Open, after recovery_timeout
\* has passed since that failure and success_threshold record_success()
\* calls have followed (hist.succAfter counts them), is_open is false.
C5_NotOpenAfterRecovery ==
    (/\ hist.openAtFailure
     /\ RecoveryElapsed(cb, cbp, now)
     /\ hist.succAfter >= cbp.success_threshold)
        => ~IsOpen(cb, cbp, now)

\* C5 witness: the breaker was Open, the timeout passed, two successes
\* followed in HalfOpen and closed it.
C5_Witness ==
    /\ hist.openAtFailure
    /\ RecoveryElapsed(cb, cbp, now)
    /\ cbp.success_threshold = 2
    /\ hist.succAfter = 2
    /\ cb.state = CLOSED
    /\ ~IsOpen(cb, cbp, now)

(***************************************************************************)
(* Claims about a run of the scraper, checked under Spec.                  *)
(***************************************************************************)

\* C1: for a finite max_depth = d, the URL set get_all_pages returns holds
\* no URL whose shortest link distance from the seed is greater than d.
C1_DiscoveredWithinDepth ==
    (cfg.max_depth # <<>> /\ rpc \in {"content", "done"}) =>
        LET d == cfg.max_depth[1]
            within[n \in 0..d] ==
                IF n = 0 THEN {cfg.domain}
                ELSE within[n - 1] \cup UNION {web[u].links : u \in within[n - 1]}
        IN  urls \subseteq within[d]

\* C2: every URL of the discovered set and of the next frontier has the
\* seed's host.
C2_DiscoveredOnSeedHost ==
    \A u \in all_urls \cup to_visit : Netloc(u) = Netloc(cfg.domain)

\* C3 as stated: no two rows written share the text of their Content
\* column.
C3_NoTwoRowsSameContent ==
    \A i, j \in 1..Len(rows) : i # j => rows[i].Content # rows[j].Content

\* C3 as amended: every row's Content is its chunk after
\* sanitize_csv_value, no two rows are written from the same chunk text,
\* also across URLs, and two rows share a Content value only when one
\* chunk is the other with a single quote in front.
C3_NoTwoRowsSameChunk ==
    \A i, j \in 1..Len(rows) :
        /\ rows[i].Content = sanitize_csv_value(rows[i].chunk)
        /\ i # j =>
            /\ rows[i].chunk # rows[j].chunk
            /\ rows[i].Content = rows[j].Content =>
                  \/ rows[i].chunk = <<"'">> \o rows[j].chunk
                  \/ rows[j].chunk = <<"'">> \o rows[i].chunk

\* C3 witness: rows of two URLs are written and the whole text of a third
\* page, equal to a chunk already written, was skipped.
C3_Witness ==
    /\ \E i, j \in 1..Len(rows) : rows[i].URL # rows[j].URL
    /\ \E u \in extracted :
          /\ \A i \in 1..Len(rows) : rows[i].URL # sanitize_csv_value(u)
          /\ \E i \in 1..Len(rows) : rows[i].chunk = web[u].text

\* C6: a fetch call entered while the breaker reads open ends at once with
\* CircuitBreakerOpen, without a GET, without a sleep and without a change
\* of the breaker; the content loop, which reads is_open itself first,
\* starts no fetch call while the breaker reads open.
C6_OpenBreakerFailsFast ==
    [][/\ \A u \in DOMAIN tasks :
            (/\ u \in DOMAIN tasks'
             /\ tasks[u].f.pc = "idle"
             /\ tasks'[u].f.pc # "idle"
             /\ cfg.circuit_breaker_enabled
             /\ IsOpen(cb, cbp, now))
                => /\ tasks'[u].f.pc = "done"
                   /\ tasks'[u].f.result = "CircuitBreakerOpen"
                   /\ tasks'[u].f.gets = 0
                   /\ tasks'[u].f.sleeps = 0
                   /\ cb' = cb
       /\ (/\ rpc = "content"
           /\ cf.pc = "idle"
           /\ cfg.circuit_breaker_enabled
           /\ IsOpen(cb, cbp, now))
                => /\ cf'.pc = "idle"
                   /\ cb' = cb]_vars

\* C6 witness: a task that waited for the semaphore entered its fetch call
\* after the breaker had opened and got CircuitBreakerOpen.
C6_Witness ==
    \E u \in DOMAIN tasks :
        /\ tasks[u].f.result = "CircuitBreakerOpen"
        /\ tasks[u].f.gets = 0
        /\ cb.state = OPEN

\* C7: a fetch call issues at most max_retries GETs; once it has ended
\* without a body and without CircuitBreakerOpen its result is None; with
\* max_retries = 0 it issues no GET and its result is None.
C7_AtMostMaxRetriesThenNone ==
    \A f \in {tasks[u].f : u \in DOMAIN tasks} \cup {cf} :
        /\ f.gets <= cfg.max_retries
        /\ (f.pc = "done" /\ f.result \notin {"content", "CircuitBreakerOpen"})
              => f.result = "None"
        /\ cfg.max_retries = 0 =>
              /\ f.gets = 0
              /\ f.pc = "done" => f.result = "None"

\* C7 witness: a fetch call used both of its two attempts, slept between
\* them and returned None.
C7_Witness ==
    \E u \in DOMAIN tasks :
        /\ cfg.max_retries = 2
        /\ tasks[u].f.pc = "done"
        /\ tasks[u].f.gets = 2
        /\ tasks[u].f.sleeps >= 1
        /\ tasks[u].f.result = "None"

\* C8: when run() has returned, the output file exists; when it has
\* raised, no output file exists.
C8_ReturnsCreatedArtifact ==
    rpc = "done" =>
        /\ outcome = "returned" => fs.file
        /\ outcome # "returned" => ~fs.file

\* C9: CircuitBreakerOpen never leaves run().  A task whose fetch call
\* raised it returns an empty set; discovery hands run() all the URLs
\* accumulated; an open breaker at the head of a level ends discovery and
\* at the head of the content loop ends the run with the path returned and
\* the rows kept; all_urls and the rows only grow; a run that fetched
\* anything ends by returning the path.
C9_BreakerOpenIsNotAnError ==
    /\ [](/\ outcome # "CircuitBreakerOpen"
          /\ \A u \in DOMAIN tasks :
                tasks[u].f.result = "CircuitBreakerOpen"
                    => tasks[u].pc = "done" /\ tasks[u].found = {}
                       /\ ~tasks[u].raised
          /\ (rpc = "done" /\ cb.total_requests > 0) => outcome = "returned")
    /\ [][/\ all_urls \subseteq all_urls'
          /\ Len(rows) <= Len(rows') /\ SubSeq(rows', 1, Len(rows)) = rows
          /\ (rpc \in {"level", "gather"} /\ rpc' \in {"content", "done"})
                => urls' = all_urls
          /\ (rpc = "level" /\ rpc' # "level"
              /\ cfg.circuit_breaker_enabled /\ IsOpen(cb, cbp, now))
                => rpc' \in {"content", "done"} /\ tasks' = <<>>
          /\ (rpc = "content" /\ cf.pc = "idle" /\ now' = now
              /\ cfg.circuit_breaker_enabled /\ IsOpen(cb, cbp, now))
                => /\ rpc' = "done" /\ outcome' = "returned"
                   /\ rows' = rows /\ cf' = cf /\ fs' = fs]_vars

\* C9 witness: the breaker opened during content extraction; the loop
\* stopped with URLs left, the rows written before are kept and run()
\* returned.
C9_Witness ==
    /\ rpc = "done"
    /\ outcome = "returned"
    /\ cb.state = OPEN
    /\ pending # {}
    /\ rows # <<>>
    /\ fs.file

\* C10: with max_depth None, run() ends by returning, not by raising.
C10_UnboundedDepthReturns ==
    (cfg.max_depth = <<>> /\ rpc = "done") => outcome = "returned"


\* C21: a record_failure() on a CLOSED breaker opens it exactly when, this
\* failure counted, the consecutive failures have reached failure_threshold
\* or total_requests has reached min_requests with the failure rate at or
\* above failure_rate_threshold; a record_success() never opens a breaker.
C21_OpensExactlyOnThresholds ==
    [][/\ (cb.state = CLOSED /\ cb'.total_failures = cb.total_failures + 1)
            => (cb'.state = OPEN
                  <=> \/ cb'.failures >= cbp.failure_threshold
                      \/ /\ cb'.total_requests >= cbp.min_requests
                         /\ cb'.total_failures * cbp.rate_den
                               >= cbp.rate_num * cb'.total_requests)
       /\ (/\ cb'.total_requests = cb.total_requests + 1
           /\ cb'.total_failures = cb.total_failures
           /\ cb.state # OPEN)
            => cb'.state # OPEN]_vars

\* A breaker that the failure rate opened: the failures recorded are fewer
\* than failure_threshold.
C21_Witness ==
    /\ cb.state = OPEN
    /\ cb.total_failures < cbp.failure_threshold
    /\ cb.total_requests = cbp.min_requests
    /\ cb.total_failures * cbp.rate_den = cbp.rate_num * cb.total_requests

\* C22: but for reset(), the state changes only CLOSED -> OPEN,
\* HALF_OPEN -> OPEN, OPEN -> HALF_OPEN and HALF_OPEN -> CLOSED; the step
\* OPEN -> HALF_OPEN is a read (no call is counted) made when the time
\* since the last record_failure(), one made while OPEN too, is at least
\* recovery_timeout.
C22_TransitionsOfTheBreaker ==
    [][(cb'.state # cb.state /\ cb' # NewBreaker) =>
          /\ <<cb.state, cb'.state>> \in
                {<<CLOSED, OPEN>>, <<HALF_OPEN, OPEN>>,
                 <<OPEN, HALF_OPEN>>, <<HALF_OPEN, CLOSED>>}
          /\ (cb.state = OPEN) =>
                /\ cb'.total_requests = cb.total_requests
                /\ cb.last_failure_time # 0
                /\ now - cb.last_failure_time >= cbp.recovery_timeout
                /\ hist.lastFailureAt = cb.last_failure_time]_vars

\* A breaker HALF_OPEN after a failure was recorded while it was OPEN.
C22_Witness ==
    /\ cb.state = HALF_OPEN
    /\ cb.failures > cbp.failure_threshold
    /\ cb.total_failures = cb.total_requests

\* C31: a record_success() (the one call that counts a request and no
\* failure) leaves the consecutive-failure counter at 0, total_requests one
\* higher, total_failures and the last-failure time as they were, and the
\* state as it was unless it was HALF_OPEN, which it may leave for CLOSED.
C31_RecordSuccessFrame ==
    [][(/\ cb'.total_requests = cb.total_requests + 1
        /\ cb'.total_failures = cb.total_failures)
          => /\ cb'.failures = 0
             /\ cb'.last_failure_time = cb.last_failure_time
             /\ \/ cb'.state = cb.state
                \/ cb.state = HALF_OPEN /\ cb'.state = CLOSED]_vars

\* A success was recorded on an OPEN breaker, which is OPEN still with its
\* consecutive failures at 0.
C31_Witness ==
    /\ cb.state = OPEN
    /\ cb.failures = 0
    /\ cb.total_failures >= cbp.failure_threshold
    /\ cb.total_requests = cb.total_failures + 1

\* C34: but for reset(), no step lowers total_requests or total_failures,
\* whatever it does to the state; and a record_failure() on a CLOSED breaker
\* opens it when, the totals being what they were before plus this failure,
\* total_requests has reached min_requests and the failure rate is at or
\* above failure_rate_threshold, however few the consecutive failures.
C34_TotalsOutliveTransitions ==
    [][/\ cb' # NewBreaker
            => /\ cb'.total_requests >= cb.total_requests
               /\ cb'.total_failures >= cb.total_failures
       /\ (/\ cb.state = CLOSED
           /\ cb'.total_failures = cb.total_failures + 1
           /\ cb.total_requests + 1 >= cbp.min_requests
           /\ (cb.total_failures + 1) * cbp.rate_den
                 >= cbp.rate_num * (cb.total_requests + 1))
            => cb'.state = OPEN]_vars

\* A breaker that had closed from HALF_OPEN (its success counter is at
\* success_threshold) and that one failure, the first in a row and fewer
\* than failure_threshold, opened again.
C34_Witness ==
    /\ cb.state = OPEN
    /\ cb.successes >= cbp.success_threshold
    /\ cb.failures = 1
    /\ cbp.failure_threshold > 1
    /\ hist.openAtFailure

\* C37: the consecutive failures are at least 0 and at most total_failures,
\* total_failures is at most total_requests, and the success counter is at
\* most the requests that were no failures.
C37_CountersOrdered ==
    /\ 0 <= cb.failures
    /\ cb.failures <= cb.total_failures
    /\ cb.total_failures <= cb.total_requests
    /\ cb.successes <= cb.total_requests - cb.total_failures

\* A HALF_OPEN breaker whose success counter is all the requests that were
\* no failures.
C37_Witness ==
    /\ cb.state = HALF_OPEN
    /\ cb.successes > 0
    /\ cb.successes = cb.total_requests - cb.total_failures

\* C19: a record_failure() made while the breaker is HALF_OPEN leaves it
\* OPEN with the half-open success counter at zero.
C19_FailureInHalfOpenReopens ==
    [][(cb.state = HALF_OPEN /\ cb'.total_failures = cb.total_failures + 1)
          => (cb'.state = OPEN /\ cb'.successes = 0)]_vars

\* C20: a record_success() moves the breaker from HALF_OPEN to CLOSED only
\* when it is at least the success_threshold-th of an unbroken run of
\* record_success() calls made in HALF_OPEN (no record_failure() between).
C20_ClosesAfterConsecutiveSuccesses ==
    [][(/\ cb.state = HALF_OPEN
        /\ cb'.state = CLOSED
        /\ cb'.total_requests = cb.total_requests + 1)
          => hist'.halfOpenStreak >= cbp.success_threshold]_vars

\* C14 (as stated): a fetch call that fails (an error status, a timeout or
\* connection error, retries used up) never makes run() raise; the URL gives
\* no links in discovery and no rows in the content loop; and every other
\* URL of the level and of the discovered set still gets its fetch call.
C14_FailureNeverAborts ==
    /\ [](/\ cfg.max_depth # <<>> => outcome \in {"none", "returned"}
          /\ \A u \in DOMAIN tasks :
                /\ (tasks[u].pc = "done" /\ tasks[u].f.result # "content")
                      => tasks[u].found = {}
                /\ tasks[u].pc = "done" => tasks[u].f.result \in {"content", "None"}
          /\ (rpc = "done" /\ outcome = "returned") => pending = {})
    /\ [][(/\ rpc = "content"
            /\ \/ cf.pc = "get" /\ cb'.total_failures > cb.total_failures
               \/ cf.pc = "sleep" /\ cf'.pc = "idle")
              => rows' = rows]_vars

\* C14 (amended): the same, except that a URL goes without its fetch call
\* when the circuit breaker reads open at its turn: a task of the level ends
\* with CircuitBreakerOpen (caught) only then, and the content loop leaves
\* URLs unvisited only with the breaker open.
C14_FailureSkipsOneUrl ==
    /\ [](/\ cfg.max_depth # <<>> => outcome \in {"none", "returned"}
          /\ \A u \in DOMAIN tasks :
                /\ (tasks[u].pc = "done" /\ tasks[u].f.result # "content")
                      => tasks[u].found = {}
                /\ tasks[u].pc = "done"
                      => tasks[u].f.result \in {"content", "None", "CircuitBreakerOpen"}
          /\ (rpc = "done" /\ outcome = "returned" /\ pending # {})
                => cfg.circuit_breaker_enabled /\ cb.state = OPEN)
    /\ [][/\ (/\ rpc = "content"
               /\ \/ cf.pc = "get" /\ cb'.total_failures > cb.total_failures
                  \/ cf.pc = "sleep" /\ cf'.pc = "idle")
                 => rows' = rows
           /\ \A u \in DOMAIN tasks :
                 (/\ DOMAIN tasks' = DOMAIN tasks
                  /\ tasks[u].f.result # "CircuitBreakerOpen"
                  /\ tasks'[u].f.result = "CircuitBreakerOpen")
                    => cfg.circuit_breaker_enabled /\ IsOpen(cb, cbp, now)]_vars

\* The content loop went through the whole discovered set although the
\* fetch of one of its URLs had failed.
C14_Witness ==
    /\ rpc = "done" /\ outcome = "returned"
    /\ pending = {}
    /\ urls \ extracted # {}
    /\ extracted # {}
    /\ rows # <<>>

\* C15: no URL of the discovered set (all_urls of get_all_pages, and the
\* set run() receives from it) starts with an excluded_protocols entry.
C15_NoExcludedProtocolDiscovered ==
    \A u \in all_urls \cup urls :
        \A pr \in cfg.excluded_protocols : ~StartsWith(u, pr)

\* The seed page with a mailto link and a whatsapp link on the seed's host
\* was fetched and process_url returned neither.
C15_Witness ==
    /\ {MailLink, AppLink} \subseteq web[Seed].links
    /\ rpc = "gather"
    /\ Seed \in DOMAIN tasks /\ tasks[Seed].pc = "done"
    /\ tasks[Seed].f.result = "content"
    /\ tasks[Seed].found = {}

\* C23: while the breaker is enabled and reads open (OPEN, recovery_timeout
\* not elapsed), a GET is issued only by a fetch call that was in progress
\* already; a task that had not entered its fetch call either keeps
\* waiting or ends with no links and no GET; the head of a depth level
\* creates no tasks and get_all_pages returns all_urls as it is.
C23_OpenBreakerStopsDispatch ==
    [][(cfg.circuit_breaker_enabled /\ IsOpen(cb, cbp, now)) =>
          /\ \A u \in DOMAIN tasks \cap DOMAIN tasks' :
                /\ tasks'[u].f.gets > tasks[u].f.gets
                      => tasks[u].pc = "fetching"
                /\ (tasks[u].pc \in {"new", "waiting"} /\ tasks'[u] # tasks[u])
                      => \/ tasks'[u].pc = "waiting"
                         \/ /\ tasks'[u].pc = "done"
                            /\ tasks'[u].found = {}
                            /\ tasks'[u].f.gets = 0
          /\ rpc = "level"
                => /\ rpc' # "gather" /\ tasks' = <<>>
                   /\ rpc' # "level"
                         => urls' = all_urls /\ all_urls' = all_urls
          /\ (rpc = "content" /\ cf.pc = "idle") => cf'.pc = "idle"]_vars

\* With the breaker open, a task that had waited for the semaphore ended on
\* CircuitBreakerOpen without a GET.
C23_Witness ==
    /\ rpc = "gather"
    /\ cfg.circuit_breaker_enabled /\ IsOpen(cb, cbp, now)
    /\ cfg.concurrent_requests = 1
    /\ \E u \in DOMAIN tasks :
          /\ tasks[u].pc = "done"
          /\ tasks[u].f.result = "CircuitBreakerOpen"
          /\ tasks[u].f.gets = 0

\* C24: the tasks of a depth level exist only while gather waits for them;
\* the level is left, and the tasks of the next level are created, only
\* when every task of the level is done.
C24_LevelBarrier ==
    /\ [](rpc # "gather" => tasks = <<>>)
    /\ [][(depth' # depth \/ DOMAIN tasks' # DOMAIN tasks \/ rpc' # rpc)
            => \A u \in DOMAIN tasks : tasks[u].pc = "done"]_vars

\* The level after one of two tasks is reached.
C24_Witness ==
    /\ web = SiteFan
    /\ rpc = "level" /\ depth = 2
    /\ {PageOne, NearHost} \subseteq visited

\* C25: during discovery the fetch calls in progress, those sleeping
\* between attempts included, are never more than concurrent_requests.
C25_AtMostConcurrentRequests ==
    Cardinality({u \in DOMAIN tasks : tasks[u].pc = "fetching"})
        <= cfg.concurrent_requests

\* One task sleeps inside its fetch call while another waits for the permit.
C25_Witness ==
    /\ cfg.concurrent_requests = 1
    /\ \E u, v \in DOMAIN tasks :
          /\ tasks[u].pc = "fetching" /\ tasks[u].f.pc = "sleep"
          /\ tasks[v].pc = "waiting"

\* C26: a URL of the frontier, and of a task that has not started, is not in
\* the visited set; a task that starts puts its URL there in the same step,
\* and enters no fetch call for a URL that is there already; the visited
\* set never loses a URL.  So no URL gets a second fetch call in discovery.
C26_DispatchedOnce ==
    /\ [](/\ rpc = "level" => to_visit \cap visited = {}
          /\ \A u \in DOMAIN tasks :
                /\ tasks[u].pc = "new" => u \notin visited
                /\ tasks[u].pc \in {"waiting", "fetching"} => u \in visited)
    /\ [][/\ visited \subseteq visited'
           /\ \A u \in DOMAIN tasks \cap DOMAIN tasks' :
                 (tasks[u].pc = "new" /\ tasks'[u].pc # "new")
                    => /\ u \in visited'
                       /\ u \in visited => tasks'[u].f = NewFetch]_vars

\* A page linked back to the seed: the seed is among the URLs discovered
\* and not in the next frontier.
C26_Witness ==
    /\ web = SiteFan
    /\ rpc = "level" /\ depth = 2
    /\ Seed \in all_urls /\ Seed \in visited
    /\ to_visit = {}

\* C32: with a max_depth that is set, discovery runs its levels at depths 0
\* to max_depth only, no fetch call sends more than max_retries GETs, and
\* run() returns in the end.
C32_RunReturns ==
    /\ [](/\ depth <= cfg.max_depth[1] + 1
          /\ tasks # <<>> => depth <= cfg.max_depth[1]
          /\ \A u \in DOMAIN tasks : tasks[u].f.gets <= cfg.max_retries
          /\ cf.gets <= cfg.max_retries)
    /\ <>(rpc = "done" /\ outcome = "returned")

\* A run that went through both its levels and, after fetch calls of two
\* attempts, returned with rows written.
C32_Witness ==
    /\ rpc = "done" /\ outcome = "returned"
    /\ cfg.max_depth = <<1>> /\ depth = 2
    /\ cfg.max_retries = 2
    /\ rows # <<>>
    /\ cb.total_requests > Cardinality(visited) + Cardinality(urls)

\* C33: the step that ends a GET of a fetch call, on a scraper with a
\* breaker, counts one request on the breaker: a failure, or a success when
\* the call returns the body.
C33_OneOutcomePerAttempt ==
    [][(/\ cfg.circuit_breaker_enabled
        /\ \/ \E u \in DOMAIN tasks \cap DOMAIN tasks' :
                 tasks[u].f.pc = "get" /\ tasks'[u].f # tasks[u].f
           \/ rpc = "content" /\ cf.pc = "get" /\ cf' # cf)
          => /\ cb'.total_requests = cb.total_requests + 1
             /\ cb'.total_failures \in
                   {cb.total_failures, cb.total_failures + 1}]_vars

\* C35: level 0 is the seed alone and its task enters its fetch call
\* without a test of the filter; the seed is in the discovered set only if
\* it passes the filter and a page that got a fetch call links to it; the
\* content loop takes its URLs from the discovered set and takes none of
\* them twice.
C35_SeedAndDiscoveredSet ==
    /\ [](/\ (rpc = "gather" /\ depth = 0) => DOMAIN tasks = {cfg.domain}
          /\ cfg.domain \in all_urls
                => /\ should_follow_url(cfg.domain, cfg)
                   /\ \E u \in visited : cfg.domain \in web[u].links
          /\ rpc = "content" => (urls = all_urls /\ pending \subseteq urls)
          /\ (rpc = "content" /\ cur # <<>>)
                => (cur \in urls /\ cur \notin pending))
    /\ [][/\ (rpc = "gather" /\ depth = 0 /\ tasks[cfg.domain].pc = "new"
              /\ tasks' # tasks)
               => /\ cfg.domain \in visited'
                  /\ tasks'[cfg.domain].f # NewFetch
          /\ (rpc = "content" /\ rpc' = "content")
               => /\ pending' \subseteq pending
                  /\ (cur' # cur) => (cur' \in pending /\ cur' \notin pending')
                  /\ (cf.pc = "idle" /\ cf' # cf) => (cur' # cur)]_vars

\* The seed, which the filter refuses, got its fetch call and is not in
\* the discovered set although a page of the set links to it.
C35_Witness ==
    /\ rpc = "content"
    /\ ~should_follow_url(cfg.domain, cfg)
    /\ cfg.domain \in visited
    /\ cfg.domain \notin urls
    /\ \E u \in urls : cfg.domain \in web[u].links
    /\ extracted # {}

\* C36: the Chunk Number of a row is the place, counted from 1, that the
\* row's chunk has among the chunks of its page, the chunks not written
\* counted too; of two rows of one URL the later has the higher number.
C36_ChunkNumberIsPosition ==
    \A k \in DOMAIN rows :
        /\ \E u \in urls :
              LET chunks == split_text(web[u].text, cfg.split_length)
              IN  /\ rows[k].URL = sanitize_csv_value(u)
                  /\ rows[k].ChunkNumber \in DOMAIN chunks
                  /\ chunks[rows[k].ChunkNumber] = rows[k].chunk
        /\ \A j \in 1..(k - 1) :
              rows[j].URL = rows[k].URL
                 => rows[j].ChunkNumber < rows[k].ChunkNumber

\* A page whose first chunk had been written for another page: its only
\* row has Chunk Number 2.
C36_Witness ==
    \E k \in DOMAIN rows :
        /\ rows[k].ChunkNumber = 2
        /\ \A j \in DOMAIN rows :
              rows[j].URL = rows[k].URL => j = k

(***************************************************************************)
(* Claims about single calls, checked under SpecCall.                      *)
(***************************************************************************)

\* C13 (as stated): for max_length L >= 1 and a text of length N, split_text
\* returns ceil(N/L) chunks, each but possibly the last of length L, none
\* empty, whose concatenation is the text; with max_length unset it returns
\* the text as a single chunk.
C13_SplitTextLaw ==
    (call.op = "split_text" /\ call.done) =>
        LET L == call.max_length
            N == Len(call.text)
            r == call.result
        IN  IF L >= 1
            THEN /\ Len(r) = (N + L - 1) \div L
                 /\ \A i \in 1..(Len(r) - 1) : Len(r[i]) = L
                 /\ \A i \in 1..Len(r) : r[i] # <<>>
                 /\ Join(r) = call.text
            ELSE r = <<call.text>>

\* C13 (amended): the same for L >= 1; with max_length unset split_text
\* returns a non-empty text as a single chunk and no chunk for an empty text.
C13_SplitTextLawNonEmpty ==
    (call.op = "split_text" /\ call.done) =>
        LET L == call.max_length
            N == Len(call.text)
            r == call.result
        IN  IF L >= 1
            THEN /\ Len(r) = (N + L - 1) \div L
                 /\ \A i \in 1..(Len(r) - 1) : Len(r[i]) = L
                 /\ \A i \in 1..Len(r) : r[i] # <<>>
                 /\ Join(r) = call.text
            ELSE r = IF call.text = <<>> THEN <<>> ELSE <<call.text>>

\* A text split into whole chunks and a shorter last one.
C13_Witness ==
    /\ call.op = "split_text" /\ call.done
    /\ call.max_length = 2 /\ Len(call.text) = 3
    /\ Len(call.result) = 2 /\ Len(call.result[2]) = 1

\* C16: a URL that contains an exclude_keywords entry is rejected by
\* should_follow_url whatever the other settings are, and process_url never
\* puts such a URL among the links it returns.
C16_ExcludeKeywordRejects ==
    /\ (call.op = "should_follow_url" /\ call.done
         /\ \E k \in call.config.exclude_keywords : Contains(call.url, k))
            => call.result = FALSE
    /\ (call.op = "process_url" /\ call.done)
            => \A l \in call.result :
                  ~\E k \in call.config.exclude_keywords : Contains(l, k)

\* A URL every other test accepts is rejected for its exclude keyword.
C16_Witness ==
    /\ call.op = "should_follow_url" /\ call.done
    /\ call.config.include_keywords # {} /\ call.config.start_with # <<>>
    /\ \E k \in call.config.exclude_keywords : Contains(call.url, k)
    /\ should_follow_url(call.url, [call.config EXCEPT !.exclude_keywords = {}])
    /\ call.result = FALSE

\* C17: sanitize_csv_value puts one single quote before a value whose first
\* character is = + - @ tab or CR and returns any other value, the empty
\* one too, as it is; the URL and the Content of every row the chunk loop
\* writes are the URL and the chunk treated that way.
C17_SanitizedValues ==
    LET quoted(v) == IF v # <<>> /\ Head(v) \in {"=", "+", "-", "@", "\t", "\r"}
                     THEN <<"'">> \o v ELSE v
    IN  /\ (call.op = "sanitize_csv_value" /\ call.done)
                => call.result = quoted(call.value)
        /\ (call.op = "chunk_loop" /\ call.done)
                => \A i \in 1..Len(call.result) :
                      /\ call.result[i].URL = quoted(call.url)
                      /\ call.result[i].Content = quoted(call.result[i].chunk)

\* A value that starts with a tab got its quote.
C17_Witness ==
    /\ call.op = "sanitize_csv_value" /\ call.done
    /\ Len(call.value) = 2 /\ call.value[1] = "\t"
    /\ call.result = <<"'">> \o call.value

\* C11: for an http(s) seed whose host is a loopback, private or reserved
\* address, written as a literal or as a name that resolves to one, the
\* constructor raises SecurityError when proxy is None; with a proxy it
\* raises no SecurityError and accepts the seed (the configuration is
\* constructed whenever its numbers are in range).
C11_InternalSeedRefused ==
    LET h == Hostname(call.domain)
        as == IF h \in IpLiterals THEN {h} ELSE AddressRecords(h)
        internal == \E a \in as : \/ IpFlags(a).private
                                  \/ IpFlags(a).loopback
                                  \/ IpFlags(a).reserved
        inRange == /\ (call.max_depth = <<>> \/ call.max_depth[1] >= 0)
                   /\ call.max_retries >= 0 /\ call.base_delay >= 0
                   /\ call.concurrent_requests >= 1
                   /\ call.connections_per_host >= 1
                   /\ call.delay_between_requests >= 0
                   /\ (call.split_length = <<>> \/ call.split_length[1] >= 1)
    IN  (/\ call.op = "ScraperConfig" /\ call.done
         /\ call.domain # <<>>
         /\ Head(call.domain) \in {"http://", "https://"}
         /\ Netloc(call.domain) # <<>>
         /\ internal)
            => IF call.proxy = "None"
               THEN call.result = "SecurityError"
               ELSE /\ call.result # "SecurityError"
                    /\ inRange => call.result = "ok"

\* C12: a constructed ScraperConfig has max_depth (when set), max_retries,
\* base_delay, delay_between_requests, timeout, connections_per_host and
\* the breaker settings non-negative and concurrent_requests >= 1; with a
\* negative number in any of these fields the constructor raises
\* ConfigurationError (if the seed did not make it raise before).
C12_NumbersNonNegative ==
    LET nonNegative == /\ (call.max_depth = <<>> \/ call.max_depth[1] >= 0)
                       /\ call.max_retries >= 0
                       /\ call.base_delay >= 0
                       /\ call.delay_between_requests >= 0
                       /\ call.timeout >= 0
                       /\ call.connections_per_host >= 0
                       /\ call.concurrent_requests >= 0
                       /\ call.circuit_breaker_threshold >= 0
                       /\ call.circuit_breaker_rate[1] >= 0
        seedAccepted == validate([call EXCEPT !.max_depth = <<>>,
                                              !.max_retries = 0,
                                              !.base_delay = 0,
                                              !.concurrent_requests = 1,
                                              !.connections_per_host = 1,
                                              !.delay_between_requests = 0,
                                              !.split_length = <<>>]) = "ok"
    IN  (call.op = "ScraperConfig" /\ call.done) =>
            /\ call.result = "ok"
                  => nonNegative /\ call.concurrent_requests >= 1
            /\ (seedAccepted /\ ~nonNegative)
                  => call.result = "ConfigurationError"

\* C18: for every netloc, of dots, slashes or any other characters,
\* _get_safe_output_directory either returns a path that lies below the
\* working directory or raises SecurityError, and run() makes a directory
\* only at a path returned: nothing is made outside the working directory.
C18_OutputBelowWorkingDirectory ==
    (call.op = "_get_safe_output_directory" /\ call.done) =>
        LET below(path) ==
                LET d == NormParts(SplitPath(path, <<>>), <<>>)
                    w == NormParts(SplitPath(call.cwd, <<>>), <<>>)
                IN  Len(d) > Len(w) /\ SubSeq(d, 1, Len(w)) = w
        IN  /\ call.result.raised = "SecurityError" \/ below(call.result.path)
            /\ \A path \in call.result.made : below(path)
            /\ call.result.raised = "SecurityError" => call.result.made = {}

\* A netloc that spells a way out of the working directory got a
\* directory below it.
C18_Witness ==
    /\ call.op = "_get_safe_output_directory" /\ call.done
    /\ call.netloc = <<".", ".", "/", "w", "a">>
    /\ call.cwd = <<"/", "w">>
    /\ call.result.raised = "none"
    /\ call.result.made = {<<"/", "w", "/", "_", "w", "a">>}


\* C27: a 429 response is followed by a sleep of Retry-After seconds, of
\* base_delay when the header is absent, and the exponent of the backoff
\* wait after a later failed attempt of the same call is the number of
\* earlier responses of the call other than 429.
C27_RateLimitOutsideBackoff ==
    call.op = "fetch_url_with_retry" =>
        \A j \in DOMAIN call.handled :
            LET e == call.handled[j]
                earlier == Cardinality({i \in 1..(j - 1) :
                              call.handled[i].response # "rate_limited"})
            IN  /\ e.response = "rate_limited"
                      => e.wait = <<IF e.retry_after = <<>> THEN call.base_delay
                                    ELSE e.retry_after[1] * 10>>
                /\ (e.response \in {"http_error", "transport_error"}
                    /\ e.wait # <<>>)
                      => \E jitter \in Jitters :
                            e.wait[1] = call.base_delay * (2 ^ earlier) + jitter

\* C28: the response to the attempt of index k that is an error status
\* other than 429 or a transport error is followed, when k + 1 <
\* max_retries, by a wait of base_delay * 2^k plus a jitter of at least 0 and
\* less than 1 second and by the attempt k + 1; otherwise by no wait, and
\* the call returns None.
C28_BackoffWait ==
    [][(/\ call.op = "fetch_url_with_retry"
        /\ call.f.pc = "get"
        /\ Len(call'.handled) = Len(call.handled) + 1
        /\ call'.handled[Len(call'.handled)].response
              \in {"http_error", "transport_error"})
          => LET e == call'.handled[Len(call'.handled)]
                 k == call.f.attempt
             IN  /\ e.attempt = k
                 /\ IF k + 1 < call.max_retries
                    THEN /\ e.wait # <<>>
                         /\ e.wait[1] >= call.base_delay * (2 ^ k)
                         /\ e.wait[1] < call.base_delay * (2 ^ k) + 10
                         /\ call'.f.pc = "sleep"
                         /\ FetchOnWake(call'.f, call).pc = "get"
                         /\ FetchOnWake(call'.f, call).attempt = k + 1
                    ELSE /\ e.wait = <<>>
                         /\ call'.f.pc = "idle"
                         /\ Len(call'.result) = Len(call.result) + 1
                         /\ call'.result[Len(call'.result)] = "None"]_vars

\* Two failed attempts were followed by waits of base_delay and of twice
\* base_delay plus the jitter, and the third, the last allowed, by the
\* return of None.
C28_Witness ==
    /\ call.op = "fetch_url_with_retry"
    /\ call.max_retries = 3 /\ call.base_delay = 5
    /\ Len(call.handled) = 3
    /\ call.handled[1].response = "http_error" /\ call.handled[1].wait = <<5>>
    /\ call.handled[2].response = "transport_error"
    /\ call.handled[2].wait = <<19>>
    /\ call.handled[3].response = "http_error" /\ call.handled[3].wait = <<>>
    /\ call.result = <<"None">>

\* C29: every attempt goes through the provider once: the GETs sent, the
\* attempts made and, with a rotating list, the proxies handed out are the
\* same number; with a rotating list of n proxies the j-th GET of the
\* scraper, counted from 0 over all its fetch calls, has proxies[j mod n] as
\* its proxy and the target URL as its URL.
C29_RoundRobinProxy ==
    /\ [](call.op = "fetch_url_with_retry" =>
            /\ call.provider.kind = "ProxyList"
                  => /\ call.provider.index = Len(call.sent)
                     /\ \A j \in 0..(Len(call.sent) - 1) :
                           /\ call.sent[j + 1].proxy =
                                 <<call.provider.proxies[
                                      (j % Len(call.provider.proxies)) + 1]>>
                           /\ call.sent[j + 1].url = call.sent[j + 1].target)
    /\ [][call.op = "fetch_url_with_retry" =>
            Len(call'.sent) = Len(call.sent)
                + (IF call'.f.pc = "get" /\ call'.f.gets # call.f.gets
                   THEN 1 ELSE 0)]_vars

\* A list of two proxies served the three attempts of a first fetch call
\* and the first attempt of a second one: p1, p2, p1, p2.
C29_Witness ==
    /\ call.op = "fetch_url_with_retry"
    /\ call.provider.kind = "ProxyList"
    /\ call.provider.proxies = <<"p1", "p2">>
    /\ call.k = 2
    /\ Len(call.sent) = 4
    /\ call.sent[3].target = Seed /\ call.sent[3].proxy = <<"p1">>
    /\ call.sent[4].target = PageOne /\ call.sent[4].proxy = <<"p2">>
    /\ call.sent[4].url = PageOne

\* C30: the constructor tests the numbers before the host: when a number
\* is out of its bounds, no proxy is configured and the seed's host is
\* loopback, private or reserved, it raises ConfigurationError.
C30_NumbersBeforeHost ==
    LET numbersBad == \/ (call.max_depth # <<>> /\ call.max_depth[1] < 0)
                      \/ call.max_retries < 0
                      \/ call.base_delay < 0
                      \/ call.concurrent_requests < 1
                      \/ call.connections_per_host < 1
                      \/ call.delay_between_requests < 0
                      \/ (call.split_length # <<>> /\ call.split_length[1] < 1)
    IN  (/\ call.op = "ScraperConfig" /\ call.done
         /\ numbersBad
         /\ call.proxy = "None"
         /\ call.domain # <<>>
         /\ Head(call.domain) \in {"http://", "https://"}
         /\ Netloc(call.domain) # <<>>
         /\ HostBlocked(Hostname(call.domain)))
            => call.result = "ConfigurationError"

=============================================================================
